---- MODULE Spec2Model ----
(***************************************************************************)
(* A state-machine model of the Microbot python agent control core:        *)
(*   - ZMQClient           (python_agent/zmq_client.py)                    *)
(*   - MetricsCollector    (python_agent/monitoring.py, the parts the      *)
(*                          client calls)                                  *)
(*   - CustomGameEnv       (python_agent/custom_env.py)                    *)
(* Rewards are kept in hundredths (-0.1 is -10, -100.0 is -10000).         *)
(***************************************************************************)
EXTENDS Integers, Sequences, FiniteSets, TLC

VARIABLES
    connected,            \* ZMQClient.connected
    socket,               \* ZMQClient.socket: the id of the handle it refers to
    connection_attempts,  \* ZMQClient.connection_attempts
    live,                 \* ids of the sockets created by the client and not closed
    awaiting,             \* ids of the REQ sockets with a request sent and no reply consumed
    created,              \* number of sockets the client has created so far
    lock_held,            \* MetricsCollector._lock is held
    connection_failures,  \* MetricsCollector.connection_failures
    blocked,              \* the calling thread is blocked forever on _lock
    calls,                \* the client calls made by the last handler, in order
    last_observation,     \* CustomGameEnv.last_observation
    current_target_npc_id,\* CustomGameEnv.current_target_npc_id (-1 is None)
    waypoint_index,       \* CustomGameEnv.waypoint_index
    player_is_in_combat_animation, \* CustomGameEnv.player_is_in_combat_animation
    ret,                  \* what the last handler returned to its caller
    last_successful_communication, \* ZMQClient.last_successful_communication
    now,                  \* time.time(), in seconds
    normalize_input,      \* the raw telemetry of a normalization looked at on its own
    snapshots,            \* the snapshots the normalizations gave, in order
    n_calls,              \* HealthCheckCallback.n_calls (kept by BaseCallback)
    health_failures,      \* HealthCheckCallback.health_failures
    health_check          \* what the last _on_step did and returned

vars == <<connected, socket, connection_attempts, live, awaiting, created,
          lock_held, connection_failures, blocked, calls,
          last_observation, current_target_npc_id, waypoint_index,
          player_is_in_combat_animation, ret, last_successful_communication, now,
          normalize_input, snapshots, n_calls, health_failures, health_check>>

(***************************************************************************)
(* Bounds of the model.                                                    *)
(***************************************************************************)
MaxSockets == 3
MaxWaypointIndex == 4
MaxCalls == 600
MaxTime == 62

(***************************************************************************)
(* Messages, as the words the code puts in them.                           *)
(***************************************************************************)
NoMessage == <<>>
MsgConnectionFailed == <<"Connection", "failed">>
MsgTimeout == <<"ZMQ", "timeout">>
MsgDecode == <<"Failed", "to", "decode", "JSON", "response">>
MsgZmqError == <<"ZMQError", "during", "communication">>
MsgUnexpected == <<"Unexpected", "error", "during", "ZMQ", "communication">>
MsgPeer == <<"peer", "error">>

Contains(message, word) == \E i \in 1..Len(message) : message[i] = word

(***************************************************************************)
(* Raw telemetry: a decoded JSON mapping.  A value is a number, an absent  *)
(* key, a JSON null, or a value of the wrong type ("bad": a string that is *)
(* no number, an object where a number is expected).  The numbers used     *)
(* are integers below 2^24, which float() and the float32 arrays keep      *)
(* exactly.                                                                *)
(***************************************************************************)
Num(n) == [t |-> "num", v |-> n]
Absent == [t |-> "absent", v |-> 0]
Null == [t |-> "null", v |-> 0]
Bad == [t |-> "bad", v |-> 0]

\* a location sub-object: t is "dict", "absent", "null" (null or {}), or
\* "bad" (a non-mapping value that is truthy)
Loc(x, y, plane) == [t |-> "dict", x |-> x, y |-> y, plane |-> plane]
LocOf(t) == [t |-> t, x |-> Absent, y |-> Absent, plane |-> Absent]

\* list elements: t is "dict" or "other" (an element that is no mapping)
Npc(id, location, animation) ==
    [t |-> "dict", id |-> id, location |-> location, animation |-> animation]
NotAnNpc == [t |-> "other", id |-> Absent, location |-> LocOf("absent"), animation |-> Absent]
Item(id) == [t |-> "dict", id |-> id]
NotAnItem == [t |-> "other", id |-> Absent]
GroundItem(id, quantity, location) ==
    [t |-> "dict", id |-> id, quantity |-> quantity, location |-> location]
NotAGroundItem == [t |-> "other", id |-> Absent, quantity |-> Absent, location |-> LocOf("absent")]

\* a list field: t is "list", "absent" or "null"
List(items) == [t |-> "list", items |-> items]
ListOf(t) == [t |-> t, items |-> <<>>]

MAX_NEARBY_NPCS == 3
MAX_INVENTORY_ITEMS == 5
MAX_GROUND_ITEMS == 5
GOBLIN_NPC_ID == 125
FOOD_ITEM_IDS == {315, 2140, 2309}
GOBLIN_AREA_WAYPOINTS == << <<3248, 3237, 0>>, <<3252, 3230, 0>>, <<3245, 3224, 0>> >>
PLAYER_COMBAT_ANIMATION_IDS == {422, 423, 390, 393, 386, 80, 819, 1658}

\* EAT_HEALTH_THRESHOLD_PERCENTAGE is 0.6: current / max <= 0.6
ShouldEat(current_health, max_health) == current_health * 10 <= max_health * 6

\* the ratio is a numpy.float32 and the threshold a Python float. NumPy 2
\* takes the Python float as weak and compares in float32, where 0.6 is
\* the ratio 3/5 itself; NumPy 1 compares in float64, where the float32
\* nearest to 3/5 (0.60000002...) is above 0.6, so that a ratio of exactly
\* 3/5 does not pass (the other ratios of whole numbers are too far from
\* 0.6 for the rounding to matter)
RatioComparisons == {"float32", "float64"}
ShouldEatAs(comparison, current_health, max_health) ==
    IF comparison = "float64"
    THEN current_health * 10 < max_health * 6
    ELSE ShouldEat(current_health, max_health)

(***************************************************************************)
(* The observation built by _get_obs.                                      *)
(***************************************************************************)
DefaultObs ==
    [is_none |-> FALSE,
     player_stats |-> <<0, 0, 0, 0, 0>>,
     player_location |-> <<0, 0, 0>>,
     nearby_npcs_info |-> [i \in 1..MAX_NEARBY_NPCS |-> <<-1, -1, -1, -1>>],
     inventory_item_ids |-> [i \in 1..MAX_INVENTORY_ITEMS |-> -1],
     nearby_ground_items_info |-> [i \in 1..MAX_GROUND_ITEMS |-> <<-1, -1, -1, -1>>],
     player_animation |-> -1]

\* last_observation = None, before the first reset
NoneObs == [DefaultObs EXCEPT !.is_none = TRUE]

\* a conversion for which an absent key is an error, as raw[key] would be
ToNumber_absent_raises(val, default) ==
    IF val.t = "num" THEN [ok |-> TRUE, v |-> val.v] ELSE [ok |-> FALSE, v |-> default]

\* float(raw.get(key, default)) / int(raw.get(key, default)): a TypeError or
\* ValueError for null and for a value that is no number
ToNumber(val, default) ==
    CASE val.t = "num" -> [ok |-> TRUE, v |-> val.v]
      [] val.t = "absent" -> [ok |-> TRUE, v |-> default]
      [] OTHER -> [ok |-> FALSE, v |-> default]

\* The body of the try block runs statement by statement; p is
\* [obs, ok], ok = FALSE once a statement has raised: the statements after
\* it do not run.
SetStat(p, i, val, default) ==
    IF ~p.ok THEN p
    ELSE LET f == ToNumber(val, default)
         IN IF f.ok THEN [p EXCEPT !.obs.player_stats[i] = f.v]
            ELSE [p EXCEPT !.ok = FALSE]

SetAnimation(p, val) ==
    IF ~p.ok THEN p
    ELSE LET f == ToNumber(val, -1)
         IN IF f.ok THEN [p EXCEPT !.obs.player_animation = f.v]
            ELSE [p EXCEPT !.ok = FALSE]

SetLocationCell(p, i, val) ==
    IF ~p.ok THEN p
    ELSE LET f == ToNumber(val, 0)
         IN IF f.ok THEN [p EXCEPT !.obs.player_location[i] = f.v]
            ELSE [p EXCEPT !.ok = FALSE]

\* custom_env.py 96-102
SetLocation(p, loc) ==
    IF ~p.ok THEN p
    ELSE CASE loc.t = "dict" ->
                SetLocationCell(SetLocationCell(SetLocationCell(p, 1, loc.x), 2, loc.y),
                                3, loc.plane)
           [] loc.t = "bad" -> [p EXCEPT !.ok = FALSE]
           [] OTHER -> [p EXCEPT !.obs.player_location = <<0, 0, 0>>]

\* obs[field][i, j] = float(element.get(key, default))
SetCell(p, field, i, j, val, default) ==
    IF ~p.ok THEN p
    ELSE LET f == ToNumber(val, default)
         IN IF f.ok THEN [p EXCEPT !.obs[field][i][j] = f.v]
            ELSE [p EXCEPT !.ok = FALSE]

\* x and y of an element's location, written only when it is a mapping
\* (an absent key gives {}, whose x and y default to -1)
SetCellLocation(p, field, i, jx, jy, loc) ==
    CASE loc.t = "dict" -> SetCell(SetCell(p, field, i, jx, loc.x, -1), field, i, jy, loc.y, -1)
      [] loc.t = "absent" -> SetCell(SetCell(p, field, i, jx, Absent, -1), field, i, jy, Absent, -1)
      [] OTHER -> p

\* custom_env.py 107-117
SetNpc(p, i, npc) ==
    IF ~p.ok \/ npc.t # "dict" THEN p
    ELSE SetCell(SetCellLocation(SetCell(p, "nearby_npcs_info", i, 1, npc.id, -1),
                                 "nearby_npcs_info", i, 2, 3, npc.location),
                 "nearby_npcs_info", i, 4, npc.animation, -1)

\* custom_env.py 122-127
SetItem(p, i, item) ==
    IF ~p.ok \/ item.t # "dict" THEN p
    ELSE LET f == ToNumber(item.id, -1)
         IN IF f.ok THEN [p EXCEPT !.obs.inventory_item_ids[i] = f.v]
            ELSE [p EXCEPT !.ok = FALSE]

\* custom_env.py 132-142
SetGroundItem(p, i, g) ==
    IF ~p.ok \/ g.t # "dict" THEN p
    ELSE SetCellLocation(SetCell(SetCell(p, "nearby_ground_items_info", i, 1, g.id, -1),
                                 "nearby_ground_items_info", i, 2, g.quantity, 0),
                         "nearby_ground_items_info", i, 3, 4, g.location)

Min(a, b) == IF a < b THEN a ELSE b

\* for i in range(min(len(data), capacity)): slots 1..n in order
RECURSIVE SetNpcs(_, _, _)
SetNpcs(p, items, n) ==
    IF n = 0 THEN p ELSE SetNpc(SetNpcs(p, items, n - 1), n, items[n])

\* the loop writing the elements in the opposite order
RECURSIVE SetItems_reversed(_, _, _)
SetItems_reversed(p, items, n) ==
    IF n = 0 THEN p
    ELSE SetItem(SetItems_reversed(p, items, n - 1), n, items[Len(items) + 1 - n])

RECURSIVE SetItems(_, _, _)
SetItems(p, items, n) ==
    IF n = 0 THEN p ELSE SetItem(SetItems(p, items, n - 1), n, items[n])

RECURSIVE SetGroundItems(_, _, _)
SetGroundItems(p, items, n) ==
    IF n = 0 THEN p ELSE SetGroundItem(SetGroundItems(p, items, n - 1), n, items[n])

\* a loop that keeps the last MAX_NEARBY_NPCS elements of a longer list
SetNpcList_keeps_last(p, lst) ==
    IF ~p.ok THEN p
    ELSE IF lst.t = "null" THEN [p EXCEPT !.ok = FALSE]
    ELSE IF Len(lst.items) <= MAX_NEARBY_NPCS THEN SetNpcs(p, lst.items, Len(lst.items))
    ELSE SetNpcs(p, SubSeq(lst.items, Len(lst.items) - MAX_NEARBY_NPCS + 1, Len(lst.items)),
                 MAX_NEARBY_NPCS)

\* raw.get(key, []) then len(): a TypeError for null
SetNpcList(p, lst) ==
    IF ~p.ok THEN p
    ELSE IF lst.t = "null" THEN [p EXCEPT !.ok = FALSE]
    ELSE SetNpcs(p, lst.items, Min(Len(lst.items), MAX_NEARBY_NPCS))

SetInventory(p, lst) ==
    IF ~p.ok THEN p
    ELSE IF lst.t = "null" THEN [p EXCEPT !.ok = FALSE]
    ELSE SetItems(p, lst.items, Min(Len(lst.items), MAX_INVENTORY_ITEMS))

SetGroundList(p, lst) ==
    IF ~p.ok THEN p
    ELSE IF lst.t = "null" THEN [p EXCEPT !.ok = FALSE]
    ELSE SetGroundItems(p, lst.items, Min(Len(lst.items), MAX_GROUND_ITEMS))

\* custom_env.py 86-152: the try block and its handlers, on the arrays
\* _get_obs has just built
ParseTelemetryFrom(start, tel) ==
    LET p0 == [obs |-> start, ok |-> TRUE]
        p1 == SetStat(p0, 1, tel.player_current_health, 0)
        p2 == SetStat(p1, 2, tel.player_max_health, 0)
        p3 == SetStat(p2, 3, tel.player_current_prayer, 0)
        p4 == SetStat(p3, 4, tel.player_max_prayer, 0)
        p5 == SetStat(p4, 5, tel.player_run_energy_percentage, 0)
        p6 == SetAnimation(p5, tel.player_animation)
        p7 == SetLocation(p6, tel.player_location)
        p8 == SetNpcList(p7, tel.nearby_npcs)
        p9 == SetInventory(p8, tel.inventory)
        p10 == SetGroundList(p9, tel.nearby_ground_items)
    IN IF p10.ok THEN p10.obs ELSE [p10.obs EXCEPT !.player_animation = -1]

ParseTelemetry(tel) == ParseTelemetryFrom(DefaultObs, tel)

(***************************************************************************)
(* What a call returns: a decoded JSON value.  kind is "map" (a mapping),  *)
(* "null" (a value that is falsy and no mapping: null, [], "", 0) or       *)
(* "list" (a truthy value that is no mapping: a list, a string, a number). *)
(* A mapping holds a status ("absent" when it has no such key), a          *)
(* message, possibly the raw_response key, and the telemetry keys: tel     *)
(* names the telemetry record (TelemetryOf) the mapping carries.           *)
(***************************************************************************)
EmptyTel ==
    [player_current_health |-> Absent, player_max_health |-> Absent,
     player_current_prayer |-> Absent, player_max_prayer |-> Absent,
     player_run_energy_percentage |-> Absent, player_animation |-> Absent,
     player_location |-> LocOf("absent"), nearby_npcs |-> ListOf("absent"),
     inventory |-> ListOf("absent"), nearby_ground_items |-> ListOf("absent")]

Mapping(status, message, has_raw, tel) ==
    [kind |-> "map", status |-> status, message |-> message, has_raw |-> has_raw, tel |-> tel]
ErrorResult(message, has_raw) == Mapping("error", message, has_raw, "empty")
NonMapping(kind) ==
    [kind |-> kind, status |-> "absent", message |-> NoMessage, has_raw |-> FALSE, tel |-> "empty"]
NoResult == NonMapping("none")

Max(a, b) == IF a > b THEN a ELSE b

(***************************************************************************)
(* MetricsCollector, as far as the client uses it.                         *)
(***************************************************************************)
\* record_error, record_observation_time, record_action_time: each takes
\* _lock for its body and releases it
with_lock(c) == IF c.lock_held THEN [c EXCEPT !.blocked = TRUE] ELSE c

record_error(c) == with_lock(c)

\* record_connection_failure takes _lock, increments the counter and calls
\* record_error, which takes _lock again; threading.Lock is not reentrant
record_connection_failure(c) ==
    IF c.lock_held THEN [c EXCEPT !.blocked = TRUE]
    ELSE record_error([c EXCEPT !.lock_held = TRUE, !.connection_failures = @ + 1])

(***************************************************************************)
(* ZMQClient.  c is the client's state as a record; how, io and reply are  *)
(* what the environment does during the call.                              *)
(***************************************************************************)
Client ==
    [connected |-> connected, socket |-> socket,
     connection_attempts |-> connection_attempts, live |-> live,
     awaiting |-> awaiting, created |-> created, lock_held |-> lock_held,
     connection_failures |-> connection_failures, blocked |-> blocked,
     last_successful_communication |-> last_successful_communication]

\* how = "ok"; "no_socket": zmq.Context() or context.socket() raises;
\* "no_connect": connect() or setsockopt() raises on the new socket
initialize_connection(c, how) ==
    LET new == c.created + 1
    IN CASE how = "ok" ->
              [c |-> [c EXCEPT !.socket = new, !.live = @ \cup {new}, !.created = new,
                               !.connected = TRUE, !.connection_attempts = @ + 1],
               raised |-> FALSE]
         [] how = "no_connect" ->
              [c |-> record_error([c EXCEPT !.socket = new, !.live = @ \cup {new},
                                            !.created = new, !.connected = FALSE]),
               raised |-> TRUE]
         [] OTHER ->
              [c |-> record_error([c EXCEPT !.connected = FALSE]), raised |-> TRUE]

\* the old socket dropped without close()
close_socket_skipped(c) == c

\* socket.close(): the handle is released, and with it the request it
\* was waiting on
close_socket(c) == [c EXCEPT !.live = @ \ {c.socket}, !.awaiting = @ \ {c.socket}]

\* _reconnect that marks the client connected on the socket it has
reconnect_keeps_socket(c, how) ==
    [c |-> [c EXCEPT !.connected = TRUE], ok |-> TRUE, peak |-> Cardinality(c.live)]

\* returns the client, whether it returned True, and the largest number of
\* live sockets during the call
reconnect(c, how) ==
    IF c.connected
    THEN [c |-> c, ok |-> TRUE, peak |-> Cardinality(c.live)]
    ELSE LET closed == close_socket(c)
             init == initialize_connection(closed, how)
             peak == Max(Cardinality(c.live),
                         Max(Cardinality(closed.live), Cardinality(init.c.live)))
         IN IF ~init.raised
            THEN [c |-> init.c, ok |-> TRUE, peak |-> peak]
            ELSE [c |-> record_connection_failure(record_error(init.c)),
                  ok |-> FALSE, peak |-> peak]

\* the except clauses of send_command's outer try, in their order: which
\* one catches an exception raised between the reconnection and the return
Catches(exception) ==
    CASE exception = "Again" -> "timeout"
      [] exception = "ZMQError" -> "zmq_error"
      [] OTHER -> "unexpected"

\* a handler that records the error and leaves self.connected as it is
disconnect_on_error_forgotten(c) == record_error(c)

\* the three handlers: record_error, then self.connected = False
disconnect_on_error(c) == [record_error(c) EXCEPT !.connected = FALSE]

\* the handler of zmq.error.Again without self.connected = False
on_timeout_stays_connected(c) == record_error(c)

\* the handler of zmq.error.Again
on_timeout(c) == disconnect_on_error(c)

HandlerMessage(handler) ==
    CASE handler = "timeout" -> MsgTimeout
      [] handler = "zmq_error" -> MsgZmqError
      [] OTHER -> MsgUnexpected

\* the end of a call: the client, the result and the record of the call
Finish(c, call, outcome, result) ==
    LET returned == ~c.blocked /\ outcome # "escaped"
    IN [c |-> c,
        result |-> IF returned THEN result ELSE NoResult,
        call |-> [call EXCEPT !.outcome = IF c.blocked THEN "blocked" ELSE outcome,
                              !.returned = returned,
                              !.raised = ~c.blocked /\ outcome = "escaped",
                              !.result = IF returned THEN result ELSE NoResult,
                              !.connected_after = c.connected,
                              !.socket_after = c.socket,
                              !.stamp_after = c.last_successful_communication]]

\* an exception raised inside the outer try of send_command
Except(c, call, exception) ==
    LET handler == Catches(exception)
    IN CASE handler = "timeout" ->
               Finish(on_timeout(c), call, handler, ErrorResult(HandlerMessage(handler), FALSE))
         [] handler \in {"zmq_error", "unexpected"} ->
               Finish(disconnect_on_error(c), call, handler,
                      ErrorResult(HandlerMessage(handler), FALSE))
         [] OTHER -> Finish(c, call, "escaped", NoResult)

\* the payload of execute_action: the action type and, for its parameters,
\* the one they are made from (the npc id, the item id or the number of
\* the waypoint); get_observation has none
Payload(action_type, parameters) == [action_type |-> action_type, id |-> parameters]
NoParams == Payload("none", -1)

\* a call record: what one get_observation / execute_action call did.
\* prev is filled in by the caller's record of calls.
send_command(c, cmd, params, e) ==
    LET r == IF c.connected
             THEN [c |-> c, ok |-> TRUE, peak |-> Cardinality(c.live)]
             ELSE reconnect(c, e.how)
        c1 == r.c
        call == [cmd |-> cmd, params |-> params, prev |-> "none", was_connected |-> c.connected,
                 socket_before |-> c.socket, created_before |-> c.created,
                 reconnects |-> IF c.connected THEN 0 ELSE 1, reconnect_ok |-> r.ok,
                 peak_live |-> r.peak, send_attempted |-> FALSE, sent |-> FALSE,
                 send_socket |-> 0, send_on_awaiting |-> FALSE, send_on_closed |-> FALSE,
                 reply |-> "none", outcome |-> "", returned |-> FALSE, raised |-> FALSE,
                 result |-> NoResult, connected_after |-> FALSE, socket_after |-> 0,
                 time |-> now, stamp_before |-> c.last_successful_communication,
                 stamp_after |-> c.last_successful_communication,
                 metrics |-> "none", decoded |-> NoResult]
        try == [call EXCEPT !.send_attempted = TRUE, !.send_socket = c1.socket,
                            !.send_on_awaiting = c1.socket \in c1.awaiting,
                            !.send_on_closed = c1.socket \notin c1.live]
        sending == [try EXCEPT !.sent = TRUE]
        received == [sending EXCEPT !.reply = e.reply.enc]
        \* socket.send_string on a REQ socket
        c2 == [c1 EXCEPT !.awaiting = @ \cup {c1.socket}]
        \* socket.recv returned the reply
        c3 == [c2 EXCEPT !.awaiting = @ \ {c1.socket}]
        \* the reply is UTF-8: self.last_successful_communication = time.time()
        c4 == [c3 EXCEPT !.last_successful_communication = now]
    IN IF c1.blocked THEN Finish(c1, call, "blocked", NoResult)
       ELSE IF ~r.ok THEN Finish(c1, call, "connection_failed",
                                 ErrorResult(MsgConnectionFailed, FALSE))
       ELSE IF e.io = "zmq_send" \/ try.send_on_awaiting \/ try.send_on_closed
            THEN Except(c1, try, "ZMQError")
       ELSE CASE e.io = "timeout" -> Except(c2, sending, "Again")
              [] e.io = "zmq_recv" -> Except(c2, sending, "ZMQError")
              [] e.reply.enc = "non_utf8" ->
                    \* response_bytes.decode('utf-8'), outside the inner try
                    Except(c3, received, "UnicodeDecodeError")
              [] e.reply.enc = "text" ->
                    \* json.loads raises JSONDecodeError, caught by the inner try
                    Finish(record_error(c4), received, "decode_error",
                           ErrorResult(MsgDecode, TRUE))
              [] e.metrics = "raises" ->
                    \* json.loads returned; record_observation_time or
                    \* record_action_time raises inside the inner try, which
                    \* catches JSONDecodeError only
                    Except(c4, [received EXCEPT !.metrics = "raises",
                                                !.decoded = e.reply.value], "Exception")
              [] OTHER ->
                    Finish(with_lock(c4),
                           [received EXCEPT !.metrics = "ok", !.decoded = e.reply.value],
                           "reply", e.reply.value)

get_observation(c, e) == send_command(c, "get_observation", NoParams, e)

execute_action(c, action_type, parameters, e) ==
    send_command(c, "execute_action", Payload(action_type, parameters), e)

\* the window of is_connected, in seconds
FreshnessWindow == 30

\* ZMQClient.is_connected at time t
is_connected(c, t) ==
    IF ~c.connected THEN FALSE
    ELSE IF t - c.last_successful_communication > FreshnessWindow THEN FALSE
    ELSE TRUE

\* a close that releases the socket and leaves the connected flag set
close_keeps_flag(c) == close_socket(c)

\* ZMQClient.close
close(c) == [close_socket(c) EXCEPT !.connected = FALSE]

(***************************************************************************)
(* The telemetry records the peer may send, by name.                       *)
(***************************************************************************)
Goblin(x, y) == Npc(Num(GOBLIN_NPC_ID), Loc(Num(x), Num(y), Num(0)), Num(-1))

\* an NPC of another type, and a goblin whose entry carries no location
Rat(x, y) == Npc(Num(GOBLIN_NPC_ID + 1), Loc(Num(x), Num(y), Num(0)), Num(-1))
GoblinNowhere == Npc(Num(GOBLIN_NPC_ID), LocOf("absent"), Num(-1))

BaseTel ==
    [player_current_health |-> Num(80), player_max_health |-> Num(100),
     player_current_prayer |-> Num(10), player_max_prayer |-> Num(10),
     player_run_energy_percentage |-> Num(1), player_animation |-> Num(808),
     player_location |-> Loc(Num(3200), Num(3200), Num(0)),
     nearby_npcs |-> List(<<Goblin(3201, 3201)>>),
     inventory |-> List(<<Item(Num(315))>>),
     nearby_ground_items |-> List(<<>>)]

TelemetryOf(name) ==
    CASE name = "empty" -> EmptyTel
      [] name = "base" -> BaseTel
      [] name = "low" -> [BaseTel EXCEPT !.player_current_health = Num(30)]
      [] name = "dead" -> [BaseTel EXCEPT !.player_current_health = Num(0)]
      [] name = "negative" -> [BaseTel EXCEPT !.player_current_health = Num(-5)]
      [] name = "health_absent" -> [BaseTel EXCEPT !.player_current_health = Absent]
      [] name = "health_bad" -> [BaseTel EXCEPT !.player_current_health = Bad]
      [] name = "max_null" -> [BaseTel EXCEPT !.player_max_health = Null]
      [] name = "location_absent" -> [BaseTel EXCEPT !.player_location = LocOf("absent")]
      [] name = "location_bad" -> [BaseTel EXCEPT !.player_location = LocOf("bad")]
      [] name = "no_npcs" -> [BaseTel EXCEPT !.nearby_npcs = List(<<>>)]
      [] name = "npcs_null" -> [BaseTel EXCEPT !.nearby_npcs = ListOf("null")]
      [] name = "two_goblins" ->
            [BaseTel EXCEPT !.nearby_npcs = List(<<Goblin(3210, 3210), Goblin(3201, 3200)>>)]
      [] name = "low_no_food" ->
            [BaseTel EXCEPT !.player_current_health = Num(30), !.inventory = List(<<>>)]
      [] name = "combat" -> [BaseTel EXCEPT !.player_animation = Num(422)]
      [] name = "threshold" -> [BaseTel EXCEPT !.player_current_health = Num(60)]
      [] name = "plane_only" ->
            [BaseTel EXCEPT !.player_location = Loc(Num(0), Num(0), Num(1))]
      [] name = "plane_only_no_npcs" ->
            [BaseTel EXCEPT !.player_location = Loc(Num(0), Num(0), Num(1)),
                            !.nearby_npcs = List(<<>>)]
      [] name = "x_zero" ->
            [BaseTel EXCEPT !.player_location = Loc(Num(0), Num(3200), Num(0)),
                            !.nearby_npcs = List(<<Rat(1, 3200), GoblinNowhere,
                                                   Goblin(3, 3204)>>)]
      [] name = "goblin_nowhere" ->
            [BaseTel EXCEPT !.nearby_npcs = List(<<Rat(3200, 3201), GoblinNowhere>>)]
      [] name = "low_location_absent" ->
            [BaseTel EXCEPT !.player_current_health = Num(30),
                            !.player_location = LocOf("absent")]

Telemetries ==
    {"base", "low", "dead", "negative", "health_absent", "health_bad", "max_null",
     "location_absent", "location_bad", "no_npcs", "npcs_null", "two_goblins",
     "low_no_food", "combat", "plane_only", "plane_only_no_npcs", "x_zero",
     "goblin_nowhere", "low_location_absent", "threshold"}

\* the try block of _get_obs on each telemetry record
Normalized == [name \in Telemetries \cup {"empty"} |-> ParseTelemetry(TelemetryOf(name))]

(***************************************************************************)
(* CustomGameEnv                                                           *)
(***************************************************************************)
\* a _get_obs that answers an Error result with the snapshot stored before
get_obs_keeps_stale(raw) ==
    CASE raw.kind = "null" -> [raised |-> FALSE, obs |-> DefaultObs]
      [] raw.kind # "map" -> [raised |-> TRUE, obs |-> DefaultObs]
      [] raw = Mapping("absent", NoMessage, FALSE, "empty") ->
            [raised |-> FALSE, obs |-> DefaultObs]
      [] raw.status = "error" ->
            [raised |-> FALSE,
             obs |-> IF last_observation.is_none THEN DefaultObs ELSE last_observation]
      [] OTHER -> [raised |-> FALSE, obs |-> Normalized[raw.tel]]

\* _get_obs on the value get_observation returned: the observation, or an
\* AttributeError from .get on a truthy value that is no mapping
get_obs(raw) ==
    CASE raw.kind = "null" -> [raised |-> FALSE, obs |-> DefaultObs]
      [] raw.kind # "map" -> [raised |-> TRUE, obs |-> DefaultObs]
      [] raw = Mapping("absent", NoMessage, FALSE, "empty") ->
            [raised |-> FALSE, obs |-> DefaultObs]
      [] raw.status = "error" -> [raised |-> FALSE, obs |-> DefaultObs]
      [] OTHER -> [raised |-> FALSE, obs |-> Normalized[raw.tel]]

\* a combat state that takes any animation for a combat animation
update_combat_state_from_obs_any_animation(obs) ==
    IF obs.is_none THEN FALSE ELSE obs.player_animation # -1

\* custom_env.py 160-167
update_combat_state_from_obs(obs) ==
    IF obs.is_none THEN FALSE ELSE obs.player_animation \in PLAYER_COMBAT_ANIMATION_IDS

\* action_specific_reward_info: "absent" and -1 stand for a key not set
Info(attack_attempted, eat_attempted, error, status, action_taken, target_id, food_id) ==
    [attack_attempted |-> attack_attempted, eat_attempted |-> eat_attempted,
     error |-> error, status |-> status, action_taken |-> action_taken,
     target_id |-> target_id, food_id |-> food_id]
AttackFailed(error) == Info("false", "absent", error, "absent", "absent", -1, -1)
EatFailed(error, status) == Info("absent", "false", error, status, "absent", -1, -1)
ActionTaken(what) == Info("absent", "absent", "absent", "absent", what, -1, -1)

\* a handler's result: action_type ("none" is None), the id parameter, the
\* info, and current_target_npc_id after the handler
Decision(action_type, id, info, target) ==
    [action_type |-> action_type, id |-> id, info |-> info, target |-> target]

\* the scan of custom_env.py 265-277: best is [id, dist], id = -1 is None
\* and dist = -1 is float('inf')
\* a scan that takes the nearest NPC of any type
RECURSIVE ScanNpcs_any_type(_, _, _)
ScanNpcs_any_type(obs, i, best) ==
    IF i > MAX_NEARBY_NPCS THEN best
    ELSE LET npc == obs.nearby_npcs_info[i]
             dx == obs.player_location[1] - npc[2]
             dy == obs.player_location[2] - npc[3]
             dist_sq == dx * dx + dy * dy
         IN IF npc[1] # -1 /\ npc[2] # -1 /\ npc[3] # -1
               /\ (best.dist = -1 \/ dist_sq < best.dist)
            THEN ScanNpcs_any_type(obs, i + 1, [id |-> npc[1], dist |-> dist_sq])
            ELSE ScanNpcs_any_type(obs, i + 1, best)

RECURSIVE ScanNpcs(_, _, _)
ScanNpcs(obs, i, best) ==
    IF i > MAX_NEARBY_NPCS THEN best
    ELSE LET npc == obs.nearby_npcs_info[i]
             dx == obs.player_location[1] - npc[2]
             dy == obs.player_location[2] - npc[3]
             dist_sq == dx * dx + dy * dy
         IN IF npc[1] = GOBLIN_NPC_ID /\ npc[2] # -1 /\ npc[3] # -1
               /\ (best.dist = -1 \/ dist_sq < best.dist)
            THEN ScanNpcs(obs, i + 1, [id |-> npc[1], dist |-> dist_sq])
            ELSE ScanNpcs(obs, i + 1, best)

\* an attack handler without the check of the player location
handle_attack_npc_blind(obs, target) ==
    IF obs.is_none
    THEN Decision("none", -1, AttackFailed("Missing last_observation"), target)
    ELSE LET best == ScanNpcs(obs, 1, [id |-> -1, dist |-> -1])
         IN IF best.id # -1
            THEN Decision("attack_npc", best.id,
                          Info("true", "absent", "absent", "absent", "absent", best.id, -1),
                          best.id)
            ELSE Decision("none", -1, AttackFailed("No suitable goblin found"), -1)

\* an attack handler that keeps the target it had when it finds no goblin
handle_attack_npc_keeps_target(obs, target) ==
    IF obs.is_none
    THEN Decision("none", -1, AttackFailed("Missing last_observation"), target)
    ELSE IF obs.player_location[1] = 0 /\ obs.player_location[2] = 0
    THEN Decision("none", -1, AttackFailed("Player location missing or uninitialized"), target)
    ELSE LET best == ScanNpcs(obs, 1, [id |-> -1, dist |-> -1])
         IN IF best.id # -1
            THEN Decision("attack_npc", best.id,
                          Info("true", "absent", "absent", "absent", "absent", best.id, -1),
                          best.id)
            ELSE Decision("none", -1, AttackFailed("No suitable goblin found"), target)

\* custom_env.py 237-289
handle_attack_npc(obs, target) ==
    IF obs.is_none
    THEN Decision("none", -1, AttackFailed("Missing last_observation"), target)
    ELSE IF obs.player_location[1] = 0 /\ obs.player_location[2] = 0
    THEN Decision("none", -1, AttackFailed("Player location missing or uninitialized"), target)
    ELSE LET best == ScanNpcs(obs, 1, [id |-> -1, dist |-> -1])
         IN IF best.id # -1
            THEN Decision("attack_npc", best.id,
                          Info("true", "absent", "absent", "absent", "absent", best.id, -1),
                          best.id)
            ELSE Decision("none", -1, AttackFailed("No suitable goblin found"), -1)

\* the first inventory slot from i on that holds food, or -1
RECURSIVE FindFood(_, _)
FindFood(obs, i) ==
    IF i > MAX_INVENTORY_ITEMS THEN -1
    ELSE IF obs.inventory_item_ids[i] # -1 /\ obs.inventory_item_ids[i] \in FOOD_ITEM_IDS
         THEN obs.inventory_item_ids[i]
         ELSE FindFood(obs, i + 1)

handle_eat_food(obs, target, comparison) ==
    IF obs.is_none
    THEN Decision("none", -1, EatFailed("Missing last_observation", "absent"), target)
    ELSE IF obs.player_stats[2] <= 0
    THEN Decision("none", -1, EatFailed("Invalid max_health", "absent"), target)
    ELSE IF ~ShouldEatAs(comparison, obs.player_stats[1], obs.player_stats[2])
    THEN Decision("none", -1, EatFailed("absent", "Health sufficient"), target)
    ELSE LET food == FindFood(obs, 1)
         IN IF food # -1
            THEN Decision("interact_inventory", food,
                          Info("absent", "true", "absent", "absent", "absent", -1, food),
                          target)
            ELSE Decision("none", -1, EatFailed("No food found", "absent"), target)

\* rewards, in hundredths
BaseActionCost == -10
ActionErrorPenalty == 50
NoGoblinPenalty == 50
NoFoodPenalty == 30
HealthSufficientPenalty == 30
SubmittedBonus == 10
AttackBonus == 50
HealBonusPerPoint == 50
NoHealPenalty == 10
MoveBonus == 5
NoopReward == 0
DeathReward == -10000

\* the failure penalties without the one for an action the game or the
\* transport answered with an error
FailurePenalty_error_unpenalized(info, action_status, action_taken) ==
    IF action_status.status = "no_action_taken" /\ action_taken # 3
    THEN CASE info.error = "No suitable goblin found" /\ action_taken = 0 -> NoGoblinPenalty
           [] info.error = "No food found" /\ action_taken = 1 -> NoFoodPenalty
           [] info.status = "Health sufficient" /\ action_taken = 1 -> HealthSufficientPenalty
           [] OTHER -> 0
    ELSE 0

\* the failure penalties without the one for an attack that finds no goblin
FailurePenalty_goblin_unpenalized(info, action_status, action_taken) ==
    IF action_status.status = "error" THEN ActionErrorPenalty
    ELSE IF action_status.status = "no_action_taken" /\ action_taken # 3
    THEN CASE info.error = "No food found" /\ action_taken = 1 -> NoFoodPenalty
           [] info.status = "Health sufficient" /\ action_taken = 1 -> HealthSufficientPenalty
           [] OTHER -> 0
    ELSE 0

\* custom_env.py 340-354
FailurePenalty(info, action_status, action_taken) ==
    IF action_status.status = "error" THEN ActionErrorPenalty
    ELSE IF action_status.status = "no_action_taken" /\ action_taken # 3
    THEN CASE info.error = "No suitable goblin found" /\ action_taken = 0 -> NoGoblinPenalty
           [] info.error = "No food found" /\ action_taken = 1 -> NoFoodPenalty
           [] info.status = "Health sufficient" /\ action_taken = 1 -> HealthSufficientPenalty
           [] OTHER -> 0
    ELSE 0

\* a submitted action rewarded with the submission bonus alone for MoveTo
SubmittedReward_move_unrewarded(info, prev_obs, current_obs, action_status, action_taken) ==
    IF action_status.status # "submitted" THEN 0
    ELSE SubmittedBonus +
         CASE action_taken = 0 -> IF info.attack_attempted = "true" THEN AttackBonus ELSE 0
           [] action_taken = 1 ->
                IF info.eat_attempted # "true" THEN 0
                ELSE IF ~prev_obs.is_none
                        /\ current_obs.player_stats[1] > prev_obs.player_stats[1]
                THEN (current_obs.player_stats[1] - prev_obs.player_stats[1]) * HealBonusPerPoint
                ELSE -NoHealPenalty
           [] OTHER -> 0

\* custom_env.py 357-385
SubmittedReward(info, prev_obs, current_obs, action_status, action_taken) ==
    IF action_status.status # "submitted" THEN 0
    ELSE SubmittedBonus +
         CASE action_taken = 0 -> IF info.attack_attempted = "true" THEN AttackBonus ELSE 0
           [] action_taken = 1 ->
                IF info.eat_attempted # "true" THEN 0
                ELSE IF ~prev_obs.is_none
                        /\ current_obs.player_stats[1] > prev_obs.player_stats[1]
                THEN (current_obs.player_stats[1] - prev_obs.player_stats[1]) * HealBonusPerPoint
                ELSE -NoHealPenalty
           [] action_taken = 2 -> MoveBonus
           [] OTHER -> 0

\* custom_env.py 395-399
DeathOverride(reward, current_obs) ==
    IF current_obs.player_stats[1] <= 0 THEN DeathReward ELSE reward

\* a NOOP that keeps the terms computed before it
NoopOverride_additive(reward, action_taken) == reward

\* custom_env.py 388-392
NoopOverride(reward, action_taken) ==
    IF action_taken = 3 THEN NoopReward ELSE reward

\* calculate_reward with the death check placed before the NOOP block
calculate_reward_death_before_noop(base_action_cost, info, prev_obs, current_obs, action_status, action_taken) ==
    NoopOverride(
        DeathOverride(base_action_cost
                        - FailurePenalty(info, action_status, action_taken)
                        + SubmittedReward(info, prev_obs, current_obs, action_status,
                                          action_taken),
                      current_obs),
        action_taken)

calculate_reward(base_action_cost, info, prev_obs, current_obs, action_status, action_taken) ==
    DeathOverride(
        NoopOverride(base_action_cost
                       - FailurePenalty(info, action_status, action_taken)
                       + SubmittedReward(info, prev_obs, current_obs, action_status, action_taken),
                     action_taken),
        current_obs)

\* the death condition with < for <=
Terminated_below_zero(current_obs) == current_obs.player_stats[1] < 0

\* custom_env.py 227-230
Terminated(current_obs) == current_obs.player_stats[1] <= 0

\* custom_env.py 232
Truncated == FALSE

(***************************************************************************)
(* What the peer and the channel may do during one call.                   *)
(***************************************************************************)
\* the JSON values the peer may reply with
Replies(cmd) ==
    {Mapping("error", MsgPeer, FALSE, "empty"), NonMapping("null"), NonMapping("list")}
    \cup (IF cmd = "execute_action"
          THEN {Mapping("submitted", NoMessage, FALSE, "empty")}
          ELSE {Mapping("absent", NoMessage, FALSE, t) : t \in Telemetries \cup {"empty"}})

NoReply == [enc |-> "none", value |-> NoResult]

\* the courses a call may take: the reconnection (when one is needed)
\* fails; or the send fails, the receive fails or times out; or a reply
\* arrives that is no UTF-8, no JSON, or a JSON value, and then the metrics
\* collector records the duration or raises
Courses(c, cmd) ==
    LET hows == IF c.connected THEN {"ok"}
                ELSE IF c.created < MaxSockets THEN {"ok", "no_socket", "no_connect"}
                ELSE {"no_socket"}
    IN {[how |-> h, io |-> "none", reply |-> NoReply, metrics |-> "ok"] : h \in hows \ {"ok"}}
       \cup {[how |-> h, io |-> i, reply |-> NoReply, metrics |-> "ok"] :
                h \in hows \cap {"ok"}, i \in {"timeout", "zmq_send", "zmq_recv"}}
       \cup {[how |-> h, io |-> "reply", reply |-> [enc |-> x, value |-> NoResult],
              metrics |-> "ok"] :
                h \in hows \cap {"ok"}, x \in {"non_utf8", "text"}}
       \cup {[how |-> h, io |-> "reply", reply |-> [enc |-> "json", value |-> v],
              metrics |-> m] :
                h \in hows \cap {"ok"}, v \in Replies(cmd), m \in {"ok", "raises"}}

(***************************************************************************)
(* The state machine.                                                      *)
(***************************************************************************)
NoInfo == ActionTaken("absent")

\* what a handler gives its caller; the observation reset and step return
\* is the one they store in last_observation
Ret(op, returned, raised, action, result, reward, terminated, truncated, info, action_status) ==
    [op |-> op, returned |-> returned, raised |-> raised, action |-> action,
     result |-> result, reward |-> reward, terminated |-> terminated,
     truncated |-> truncated, info |-> info, action_status |-> action_status]

\* a handler that is not step: no action, reward or flags
PlainRet(op, returned, raised, result) ==
    Ret(op, returned, raised, -1, result, 0, FALSE, FALSE, NoInfo, NoResult)

\* what is known of _on_step before its first call
NoHealthCheck == [on_step |-> TRUE, performed |-> FALSE, returned |-> "none", health |-> "none"]

\* the state after __init__ of CustomGameEnv: the client connected on its
\* first socket, no observation yet
InitProgram ==
    /\ connected = TRUE
    /\ socket = 1
    /\ connection_attempts = 1
    /\ live = {1}
    /\ awaiting = {}
    /\ created = 1
    /\ lock_held = FALSE
    /\ connection_failures = 0
    /\ blocked = FALSE
    /\ calls = <<>>
    /\ last_observation = NoneObs
    /\ current_target_npc_id = -1
    /\ waypoint_index = 0
    /\ player_is_in_combat_animation = FALSE
    /\ ret = PlainRet("idle", TRUE, FALSE, NoResult)
    /\ last_successful_communication = 0
    \* the clock reads seconds since the epoch, which is long past
    /\ now = FreshnessWindow + 1
    /\ n_calls = 0
    /\ health_failures = 0
    /\ health_check = NoHealthCheck

Init ==
    /\ InitProgram
    /\ normalize_input = EmptyTel
    /\ snapshots = <<>>

SetClient(c) ==
    /\ connected' = c.connected
    /\ socket' = c.socket
    /\ connection_attempts' = c.connection_attempts
    /\ live' = c.live
    /\ awaiting' = c.awaiting
    /\ created' = c.created
    /\ lock_held' = c.lock_held
    /\ connection_failures' = c.connection_failures
    /\ blocked' = c.blocked
    /\ last_successful_communication' = c.last_successful_communication

\* how the call before the next one ended, as far as calls records it
PrevOutcome(made) == IF made = <<>> THEN "none" ELSE made[Len(made)].outcome

\* the record of a call, once it is known which call came before it
After(made, call) == [call EXCEPT !.prev = PrevOutcome(made)]

\* the client does not look into a decoded reply: for a client used on its
\* own, a mapping without telemetry keys and one with all of them
ClientCourses(c, cmd) == {e \in Courses(c, cmd) : e.reply.value.tel \in {"empty", "base"}}

\* a caller of the client calls get_observation
GetObservation ==
    /\ ~blocked
    /\ \E e \in ClientCourses(Client, "get_observation") :
          LET r == get_observation(Client, e)
          IN /\ SetClient(r.c)
             /\ calls' = <<After(calls, r.call)>>
             /\ ret' = PlainRet("get_observation", r.call.returned, r.call.raised, r.result)
    /\ UNCHANGED <<last_observation, current_target_npc_id, waypoint_index,
                   player_is_in_combat_animation, now,
                   normalize_input, snapshots, n_calls, health_failures, health_check>>

\* a caller of the client calls execute_action
ExecuteAction ==
    /\ ~blocked
    /\ \E e \in ClientCourses(Client, "execute_action") :
          LET r == execute_action(Client, "walk_to", 1, e)
          IN /\ SetClient(r.c)
             /\ calls' = <<After(calls, r.call)>>
             /\ ret' = PlainRet("execute_action", r.call.returned, r.call.raised, r.result)
    /\ UNCHANGED <<last_observation, current_target_npc_id, waypoint_index,
                   player_is_in_combat_animation, now,
                   normalize_input, snapshots, n_calls, health_failures, health_check>>

\* ZMQClient.close
Close ==
    /\ ~blocked
    /\ SetClient(close(Client))
    /\ UNCHANGED calls
    /\ ret' = PlainRet("close", TRUE, FALSE, NoResult)
    /\ UNCHANGED <<last_observation, current_target_npc_id, waypoint_index,
                   player_is_in_combat_animation, now,
                   normalize_input, snapshots, n_calls, health_failures, health_check>>

\* CustomGameEnv.close
EnvClose ==
    /\ ~blocked
    /\ ret.op = "idle"
    /\ SetClient(close(Client))
    /\ calls' = <<>>
    /\ ret' = PlainRet("close", TRUE, FALSE, NoResult)
    /\ UNCHANGED <<last_observation, current_target_npc_id, waypoint_index,
                   player_is_in_combat_animation, now,
                   normalize_input, snapshots, n_calls, health_failures, health_check>>

\* CustomGameEnv.reset
Reset ==
    /\ ~blocked
    /\ ret.op = "idle"
    /\ \E e \in Courses(Client, "get_observation") :
          LET r == get_observation(Client, e)
              g == get_obs(r.result)
              done == r.call.returned /\ ~g.raised
          IN /\ SetClient(r.c)
             /\ calls' = <<After(calls, r.call)>>
             /\ last_observation' = IF done THEN g.obs ELSE last_observation
             /\ player_is_in_combat_animation' =
                   IF done THEN update_combat_state_from_obs(g.obs)
                   ELSE player_is_in_combat_animation
             /\ ret' = PlainRet("reset", done, r.call.raised \/ (r.call.returned /\ g.raised),
                                r.result)
    /\ UNCHANGED <<current_target_npc_id, waypoint_index, now, normalize_input, snapshots, n_calls, health_failures, health_check>>

NoActionTaken == Mapping("no_action_taken", NoMessage, FALSE, "empty")

\* a selection in which a code outside 0..3 is sent to the game as a walk
SelectAction_unknown_submitted(action, comparison) ==
    CASE action = 0 ->
            [d |-> handle_attack_npc(last_observation, current_target_npc_id),
             waypoint_index |-> waypoint_index]
      [] action = 1 ->
            [d |-> handle_eat_food(last_observation, current_target_npc_id, comparison),
             waypoint_index |-> waypoint_index]
      [] action = 2 ->
            [d |-> Decision("walk_to", (waypoint_index % Len(GOBLIN_AREA_WAYPOINTS)) + 1,
                            ActionTaken("move_to_waypoint"), current_target_npc_id),
             waypoint_index |-> waypoint_index + 1]
      [] action = 3 ->
            [d |-> Decision("none", -1, ActionTaken("noop"), current_target_npc_id),
             waypoint_index |-> waypoint_index]
      [] OTHER ->
            [d |-> Decision("walk_to", 1, ActionTaken("unknown"), current_target_npc_id),
             waypoint_index |-> waypoint_index]

\* a selection in which MoveTo leaves the waypoint index where it is
SelectAction_cursor_stuck(action, comparison) ==
    CASE action = 0 ->
            [d |-> handle_attack_npc(last_observation, current_target_npc_id),
             waypoint_index |-> waypoint_index]
      [] action = 1 ->
            [d |-> handle_eat_food(last_observation, current_target_npc_id, comparison),
             waypoint_index |-> waypoint_index]
      [] action = 2 ->
            [d |-> Decision("walk_to", (waypoint_index % Len(GOBLIN_AREA_WAYPOINTS)) + 1,
                            ActionTaken("move_to_waypoint"), current_target_npc_id),
             waypoint_index |-> waypoint_index]
      [] action = 3 ->
            [d |-> Decision("none", -1, ActionTaken("noop"), current_target_npc_id),
             waypoint_index |-> waypoint_index]
      [] OTHER ->
            [d |-> Decision("none", -1, ActionTaken("unknown"), current_target_npc_id),
             waypoint_index |-> waypoint_index]

\* a selection in which NOOP is an action type sent to the game
SelectAction_noop_submitted(action, comparison) ==
    CASE action = 0 ->
            [d |-> handle_attack_npc(last_observation, current_target_npc_id),
             waypoint_index |-> waypoint_index]
      [] action = 1 ->
            [d |-> handle_eat_food(last_observation, current_target_npc_id, comparison),
             waypoint_index |-> waypoint_index]
      [] action = 2 ->
            [d |-> Decision("walk_to", (waypoint_index % Len(GOBLIN_AREA_WAYPOINTS)) + 1,
                            ActionTaken("move_to_waypoint"), current_target_npc_id),
             waypoint_index |-> waypoint_index + 1]
      [] action = 3 ->
            [d |-> Decision("noop", -1, ActionTaken("noop"), current_target_npc_id),
             waypoint_index |-> waypoint_index]
      [] OTHER ->
            [d |-> Decision("none", -1, ActionTaken("unknown"), current_target_npc_id),
             waypoint_index |-> waypoint_index]

\* custom_env.py 185-202: the action type, its parameter, the info, and the
\* target and the waypoint index after the selection
SelectAction(action, comparison) ==
    CASE action = 0 ->
            [d |-> handle_attack_npc(last_observation, current_target_npc_id),
             waypoint_index |-> waypoint_index]
      [] action = 1 ->
            [d |-> handle_eat_food(last_observation, current_target_npc_id, comparison),
             waypoint_index |-> waypoint_index]
      [] action = 2 ->
            [d |-> Decision("walk_to", (waypoint_index % Len(GOBLIN_AREA_WAYPOINTS)) + 1,
                            ActionTaken("move_to_waypoint"), current_target_npc_id),
             waypoint_index |-> waypoint_index + 1]
      [] action = 3 ->
            [d |-> Decision("none", -1, ActionTaken("noop"), current_target_npc_id),
             waypoint_index |-> waypoint_index]
      [] OTHER ->
            [d |-> Decision("none", -1, ActionTaken("unknown"), current_target_npc_id),
             waypoint_index |-> waypoint_index]

\* the action codes a caller passes: 0..3, and 4 for a code outside the set
Actions == 0..4

\* the rest of step once the action is selected and, when there is one,
\* submitted: sub is what execute_action gave and f what get_observation gave
StepWith(action, d, sub, made, f) ==
    LET action_status == sub.result
        g == get_obs(f.result)
        fetched == f.call.returned /\ ~g.raised
        \* _calculate_reward raises on action_status.get when action_status
        \* is no mapping
        done == fetched /\ action_status.kind = "map"
    IN /\ SetClient(f.c)
       /\ calls' = Append(made, After(made, f.call))
       /\ last_observation' = IF fetched THEN g.obs ELSE last_observation
       /\ player_is_in_combat_animation' =
             IF fetched THEN update_combat_state_from_obs(g.obs)
             ELSE player_is_in_combat_animation
       /\ ret' = IF done
                 THEN Ret("step", TRUE, FALSE, action, f.result,
                          \* prev_obs is self.last_observation, which line 213
                          \* has already replaced
                          calculate_reward(BaseActionCost, d.info, g.obs, g.obs,
                                           action_status, action),
                          Terminated(g.obs), Truncated, d.info, action_status)
                 ELSE Ret("step", FALSE, f.call.raised \/ f.call.returned, action, f.result,
                          0, FALSE, FALSE, d.info, action_status)

\* step did not get past execute_action
StepBlocked(action, d, sub, made) ==
    /\ SetClient(sub.c)
    /\ calls' = made
    /\ ret' = Ret("step", FALSE, sub.call.raised, action, NoResult, 0, FALSE, FALSE, d.info,
                  NoResult)
    /\ UNCHANGED <<last_observation, player_is_in_combat_animation>>

\* the comparisons a build may make, where they decide differently: for
\* a Consume step on a snapshot whose health ratio is exactly the threshold
ComparisonsThatDiffer(action) ==
    IF /\ action = 1
       /\ ShouldEatAs("float32", last_observation.player_stats[1],
                      last_observation.player_stats[2])
            # ShouldEatAs("float64", last_observation.player_stats[1],
                          last_observation.player_stats[2])
    THEN RatioComparisons
    ELSE {"float32"}

\* CustomGameEnv.step
Step ==
    /\ ~blocked
    /\ ret.op = "idle"
    /\ \E action \in Actions :
      \E comparison \in ComparisonsThatDiffer(action) :
        \E sel \in {SelectAction(action, comparison)} :
           /\ action = 2 => waypoint_index < MaxWaypointIndex
           /\ current_target_npc_id' = sel.d.target
           /\ UNCHANGED <<now, normalize_input, snapshots, n_calls, health_failures, health_check>>
           /\ waypoint_index' = sel.waypoint_index
           /\ IF sel.d.action_type = "none"
              THEN \E e2 \in Courses(Client, "get_observation") :
                      \E f \in {get_observation(Client, e2)} :
                         StepWith(action, sel.d,
                                  [c |-> Client, result |-> NoActionTaken], <<>>, f)
              ELSE \E e1 \in Courses(Client, "execute_action") :
                      \E sub \in {execute_action(Client, sel.d.action_type, sel.d.id, e1)} :
                         IF ~sub.call.returned
                         THEN StepBlocked(action, sel.d, sub, <<After(calls, sub.call)>>)
                         ELSE \E e2 \in Courses(sub.c, "get_observation") :
                                 \E f \in {get_observation(sub.c, e2)} :
                                    StepWith(action, sel.d, sub,
                                             <<After(calls, sub.call)>>, f)

\* the caller has what the handler returned, and the environment waits for
\* its next call
Return ==
    /\ ~blocked
    /\ ret.op # "idle"
    \* the caller keeps the terminated flag of the step that has returned
    /\ ret' = [PlainRet("idle", TRUE, FALSE, NoResult)
                 EXCEPT !.terminated = ret.op = "step" /\ ret.returned /\ ret.terminated]
    /\ calls' = <<>>
    /\ UNCHANGED <<connected, socket, connection_attempts, live, awaiting, created,
                   lock_held, connection_failures, blocked, last_observation,
                   current_target_npc_id, waypoint_index, player_is_in_combat_animation,
                   last_successful_communication, now, normalize_input, snapshots, n_calls, health_failures, health_check>>

\* a CustomGameEnv and the client it owns
Next == Reset \/ Step \/ EnvClose \/ Return

Spec == Init /\ [][Next]_vars

\* what is_connected returned, as a result
Bool(b) == NonMapping(IF b THEN "true" ELSE "false")

\* a caller of the client calls is_connected
IsConnected ==
    /\ ~blocked
    /\ ret' = PlainRet("is_connected", TRUE, FALSE, Bool(is_connected(Client, now)))
    /\ UNCHANGED <<connected, socket, connection_attempts, live, awaiting, created,
                   lock_held, connection_failures, blocked, calls, last_observation,
                   current_target_npc_id, waypoint_index, player_is_in_combat_animation,
                   last_successful_communication, now, normalize_input, snapshots, n_calls, health_failures, health_check>>

\* time passes between two calls, as long as the window of is_connected or
\* a second longer; what the last call returned is in the past
Tick ==
    /\ ~blocked
    /\ \E dt \in {FreshnessWindow, FreshnessWindow + 1} :
          /\ now + dt <= MaxTime
          /\ now' = now + dt
    /\ ret' = PlainRet("idle", TRUE, FALSE, NoResult)
    /\ UNCHANGED <<connected, socket, connection_attempts, live, awaiting, created,
                   lock_held, connection_failures, blocked, calls, last_observation,
                   current_target_npc_id, waypoint_index, player_is_in_combat_animation,
                   last_successful_communication, normalize_input, snapshots, n_calls, health_failures, health_check>>

\* a ZMQClient used on its own
NextClient == GetObservation \/ ExecuteAction \/ Close \/ IsConnected \/ Tick

SpecClient == Init /\ [][NextClient]_vars

(***************************************************************************)
(* Normalization on its own: the try block of _get_obs as a function of    *)
(* the raw telemetry mapping, over a set of mappings.                      *)
(***************************************************************************)
\* how many elements more than its capacity a list of the inputs may have
MaxOverCapacity == 1
\* how many normalizations a behaviour has
MaxNormalizations == 3

\* the keys _get_obs reads, in the order it reads them
Keys ==
    {"player_current_health", "player_max_health", "player_current_prayer",
     "player_max_prayer", "player_run_energy_percentage", "player_animation",
     "player_location", "nearby_npcs", "inventory", "nearby_ground_items"}
ListKeys == {"nearby_npcs", "inventory", "nearby_ground_items"}

\* the k-th element of each list, all different
NpcNo(k) == Npc(Num(100 + k), Loc(Num(3200 + k), Num(3300 + k), Num(0)), Num(400 + k))
ItemNo(k) == Item(Num(500 + k))
GroundItemNo(k) == GroundItem(Num(600 + k), Num(k), Loc(Num(3210 + k), Num(3310 + k), Num(0)))

FullTel ==
    [BaseTel EXCEPT !.nearby_npcs = List(<<Goblin(3201, 3201), NpcNo(2)>>),
                    !.inventory = List(<<Item(Num(315)), ItemNo(2)>>),
                    !.nearby_ground_items = List(<<GroundItemNo(1)>>)]

\* a mapping without the keys of S
WithoutKeys(tel, S) == [k \in Keys |-> IF k \in S THEN EmptyTel[k] ELSE tel[k]]

\* a value of the wrong type under key k: JSON null or a string for a
\* number, a string for the location, null for a list
WrongValues(k) ==
    CASE k = "player_location" -> {LocOf("bad")}
      [] k \in ListKeys -> {ListOf("null")}
      [] OTHER -> {Bad, Null}

WithValue(tel, key, val) == [k \in Keys |-> IF k = key THEN val ELSE tel[k]]

\* a list of n elements under key k
ListOfLength(k, n) ==
    CASE k = "nearby_npcs" -> List([i \in 1..n |-> NpcNo(i)])
      [] k = "inventory" -> List([i \in 1..n |-> ItemNo(i)])
      [] OTHER -> List([i \in 1..n |-> GroundItemNo(i)])

Capacity(k) ==
    CASE k = "nearby_npcs" -> MAX_NEARBY_NPCS
      [] k = "inventory" -> MAX_INVENTORY_ITEMS
      [] OTHER -> MAX_GROUND_ITEMS

\* elements with keys missing, and elements that are no mappings
OddLists ==
    {WithValue(FullTel, "nearby_npcs",
               List(<<NotAnNpc, Npc(Absent, LocOf("absent"), Absent),
                      Npc(Num(125), Loc(Absent, Num(7), Absent), Num(1))>>)),
     WithValue(FullTel, "nearby_npcs", List(<<Npc(Num(125), LocOf("null"), Absent)>>)),
     WithValue(FullTel, "inventory", List(<<NotAnItem, Item(Absent), Item(Num(315))>>)),
     WithValue(FullTel, "nearby_ground_items",
               List(<<NotAGroundItem, GroundItem(Absent, Absent, LocOf("absent")),
                      GroundItem(Num(526), Num(2), Loc(Num(1), Absent, Num(0)))>>)),
     WithValue(FullTel, "player_location", Loc(Absent, Num(3200), Absent)),
     WithValue(FullTel, "player_location", LocOf("null")),
     WithValue(FullTel, "nearby_npcs", List(<<Npc(Bad, LocOf("absent"), Num(1))>>)),
     WithValue(FullTel, "inventory", List(<<Item(Num(315)), Item(Null)>>))}

\* the raw telemetry mappings normalized: every subset of the keys absent,
\* one value of the wrong type, lists of every length up to more than the
\* capacity, and lists with odd elements
RawTelemetries ==
    {WithoutKeys(FullTel, S) : S \in SUBSET Keys}
    \cup UNION {{WithValue(FullTel, k, v) : v \in WrongValues(k)} : k \in Keys}
    \cup UNION {{WithValue(FullTel, k, ListOfLength(k, n)) :
                    n \in 0..(Capacity(k) + MaxOverCapacity)} : k \in ListKeys}
    \cup OddLists

\* arrays kept from the call before and written over
FreshObs_reused(prev) == IF prev.is_none THEN DefaultObs ELSE prev

\* _get_obs builds its arrays anew in each call (custom_env.py 62-69),
\* whatever the observation before
FreshObs(prev) == DefaultObs

InitNormalize ==
    /\ InitProgram
    /\ normalize_input \in RawTelemetries
    /\ snapshots = <<>>

\* the try block of _get_obs on normalize_input
Normalize ==
    /\ Len(snapshots) < MaxNormalizations
    /\ last_observation' = ParseTelemetryFrom(FreshObs(last_observation), normalize_input)
    /\ snapshots' = Append(snapshots, [own |-> TRUE, obs |-> last_observation'])
    /\ ret' = PlainRet("normalize", TRUE, FALSE, NoResult)
    /\ UNCHANGED <<connected, socket, connection_attempts, live, awaiting, created,
                   lock_held, connection_failures, blocked, calls,
                   current_target_npc_id, waypoint_index, player_is_in_combat_animation,
                   last_successful_communication, now, normalize_input, n_calls,
                   health_failures, health_check>>

\* between two normalizations of normalize_input: the normalization of
\* another mapping
NormalizeAnother ==
    /\ Len(snapshots) < MaxNormalizations
    /\ \E tel \in {EmptyTel, TelemetryOf("two_goblins")} :
          last_observation' = ParseTelemetryFrom(FreshObs(last_observation), tel)
    /\ snapshots' = Append(snapshots, [own |-> FALSE, obs |-> last_observation'])
    /\ ret' = PlainRet("normalize_another", TRUE, FALSE, NoResult)
    /\ UNCHANGED <<connected, socket, connection_attempts, live, awaiting, created,
                   lock_held, connection_failures, blocked, calls,
                   current_target_npc_id, waypoint_index, player_is_in_combat_animation,
                   last_successful_communication, now, normalize_input, n_calls,
                   health_failures, health_check>>

NextNormalize == Normalize \/ NormalizeAnother

SpecNormalize == InitNormalize /\ [][NextNormalize]_vars

(***************************************************************************)
(* HealthCheckCallback of train_agent_enhanced.py, looked at on its own.   *)
(***************************************************************************)
check_interval == 100
max_health_failures == 5

\* the summaries get_health_summary may give, as far as the check reads
\* them; raises marks a call that raises instead of giving one
HealthSummaries ==
    [raises : BOOLEAN,
     zmq_connected : {"true", "false", "absent"},
     error_count_last_minute : {10, 11},
     last_observation_age_ms : {10000, 10001}]

\* train_agent_enhanced.py 53-62: the number of critical issues
CriticalIssues(health) ==
    (IF health.zmq_connected # "true" THEN 1 ELSE 0)
    + (IF health.error_count_last_minute > 10 THEN 1 ELSE 0)
    + (IF health.last_observation_age_ms > 10000 THEN 1 ELSE 0)

\* how a health check went
HealthOutcome(health) ==
    IF health.raises THEN "raises"
    ELSE IF CriticalIssues(health) > 0 THEN "critical" ELSE "good"

\* _perform_health_check: the counter after it and what it returns ("None"
\* when it falls off its end)
perform_health_check(health, failures) ==
    IF HealthOutcome(health) = "raises"
    THEN [health_failures |-> failures, returned |-> "None"]
    ELSE IF HealthOutcome(health) = "critical"
    THEN [health_failures |-> failures + 1,
          returned |-> IF failures + 1 >= max_health_failures THEN "False" ELSE "None"]
    ELSE [health_failures |-> 0, returned |-> "None"]

\* _on_step: the check every check_interval calls; what the check returns
\* is dropped and True is returned
on_step(calls_made, health, failures) ==
    IF calls_made % check_interval = 0
    THEN LET check == perform_health_check(health, failures)
         IN [health_failures |-> check.health_failures, on_step |-> TRUE,
             performed |-> TRUE, returned |-> check.returned,
             health |-> HealthOutcome(health)]
    ELSE [health_failures |-> failures, on_step |-> TRUE, performed |-> FALSE,
          returned |-> "none", health |-> "none"]

\* BaseCallback.on_step, called by the training loop after each step of the
\* environment: it counts the call and calls _on_step
OnStep ==
    /\ n_calls < MaxCalls
    /\ n_calls' = n_calls + 1
    /\ \E health \in HealthSummaries :
          LET r == on_step(n_calls', health, health_failures)
          IN /\ health_failures' = r.health_failures
             /\ health_check' = [on_step |-> r.on_step, performed |-> r.performed,
                                 returned |-> r.returned, health |-> r.health]
    /\ UNCHANGED <<connected, socket, connection_attempts, live, awaiting, created,
                   lock_held, connection_failures, blocked, calls, last_observation,
                   current_target_npc_id, waypoint_index, player_is_in_combat_animation,
                   ret, last_successful_communication, now, normalize_input, snapshots>>

NextHealth == OnStep

SpecHealth == Init /\ [][NextHealth]_vars

(***************************************************************************)
(* The claims.                                                             *)
(***************************************************************************)
StepReturned == ret.op = "step" /\ ret.returned
FetchedHealth == last_observation.player_stats[1]

\* C1: a step whose freshly fetched snapshot has currentHealth <= 0 returns
\* exactly the death reward (-100.0), whatever the action code, the action
\* outcome and the decision info.
C1_DeathOverride ==
    (StepReturned /\ FetchedHealth <= 0) => ret.reward = DeathReward

\* a NOOP step and a submitted action, each with the player dead in the
\* telemetry fetched
C1_Witness ==
    /\ StepReturned
    /\ ret.result.tel = "dead"
    /\ ret.action = 3
    /\ FetchedHealth = 0

\* C2: terminated is true exactly when the snapshot fetched in the step
\* has currentHealth <= 0, and truncated is false in every step.
C2_TerminatedIffDead ==
    StepReturned => /\ ret.terminated <=> (FetchedHealth <= 0)
                    /\ ret.truncated = FALSE

C2_Witness ==
    /\ StepReturned
    /\ ret.result.tel \in {"dead", "negative"}
    /\ ret.terminated

\* C3: a step whose snapshot fetch returns an Error-status result returns
\* terminated = false and does not get the death reward.
C3_ErrorFetchDoesNotEndEpisode ==
    (StepReturned /\ ret.result.kind = "map" /\ ret.result.status = "error")
        => (ret.terminated = FALSE /\ ret.reward # DeathReward)

\* C4: every call to step returns a five-tuple and never raises, whatever
\* the transport client returns for the submit and for the fetch.
C4_StepAlwaysReturns ==
    ret.op = "step" => (ret.returned /\ ~ret.raised)

Calls == {calls[i] : i \in DOMAIN calls}

\* C5: a call whose receive times out returns status "error" with a message
\* containing "timeout" and leaves the client marked disconnected; the call
\* after it makes exactly one reconnection attempt, and makes it before it
\* sends: what it sends goes out on the socket that attempt created.
C5_TimeoutThenOneReconnect ==
    \A k \in Calls :
        /\ k.outcome = "timeout" =>
              /\ k.returned
              /\ k.result.status = "error"
              /\ Contains(k.result.message, "timeout")
              /\ ~k.connected_after
        /\ k.prev = "timeout" =>
              /\ k.reconnects = 1
              /\ k.send_attempted => (k.send_socket > k.created_before
                                      /\ k.send_socket # k.socket_before)

\* the call after a timed-out call has reconnected and got a reply
C5_Witness ==
    \E k \in Calls : k.prev = "timeout" /\ k.sent /\ k.outcome = "reply"

\* C6: a call made while disconnected whose reconnection attempt fails
\* returns an Error-status result after that one attempt, sends nothing
\* and leaves the client marked disconnected.
C6_FailedReconnectReturnsError ==
    \A k \in Calls :
        (~k.was_connected /\ ~k.reconnect_ok) =>
            /\ k.returned
            /\ k.result.status = "error"
            /\ k.reconnects = 1
            /\ ~k.send_attempted
            /\ ~k.connected_after

\* C7: a call that receives a reply that cannot be decoded as JSON returns
\* status "error" with the raw reply in the result and leaves the client
\* connected; the call after it, with the flag still set, sends on the same
\* socket without reconnecting.
C7_UndecodableReplyKeepsConnection ==
    \A k \in Calls :
        /\ k.reply \in {"non_utf8", "text"} =>
              /\ k.returned
              /\ k.result.status = "error"
              /\ k.result.has_raw
              /\ k.connected_after
        /\ (k.prev = "decode_error" /\ k.was_connected) =>
              /\ k.reconnects = 0
              /\ k.send_attempted /\ k.send_socket = k.socket_before

\* C8: a transport-level failure during send or receive marks the client
\* disconnected and the call returns an Error-status result; no exception
\* escapes get_observation or execute_action.
C8_TransportFailureIsReturned ==
    \A k \in Calls :
        /\ ~k.raised
        /\ k.outcome \in {"timeout", "zmq_error", "unexpected"} =>
              /\ k.returned
              /\ k.result.kind = "map"
              /\ k.result.status = "error"
              /\ ~k.connected_after

\* a send that failed on a socket the client had just reconnected
C8_Witness ==
    \E k \in Calls : k.outcome = "zmq_error" /\ ~k.sent /\ k.reconnects = 1 /\ ~connected

\* C9: send_string is never called on a socket that has a request without
\* a consumed reply (nor on a closed one), and the request after a timeout
\* goes out on a socket created after it.
C9_RequestReplyDiscipline ==
    \A k \in Calls :
        /\ ~k.send_on_awaiting
        /\ ~k.send_on_closed
        /\ (k.prev = "timeout" /\ k.send_attempted) => k.send_socket > k.created_before

\* two timeouts in a row: the second request went out on a new socket
C9_Witness ==
    \E k \in Calls : k.prev = "timeout" /\ k.sent /\ k.outcome = "timeout"
                     /\ awaiting = {k.send_socket}

\* C10: at most one socket created by the client is live, in every state
\* and at every point of a call: the old one is closed before its
\* replacement is created.
C10_AtMostOneLiveSocket ==
    /\ Cardinality(live) <= 1
    /\ live \subseteq {socket}
    /\ \A k \in Calls : k.peak_live <= 1

\* the client on its third socket, after two reconnections
C10_Witness ==
    /\ created >= 3
    /\ live = {socket}
    /\ connected

\* C11: is_connected returns true only if the client is marked connected
\* and the last successful round trip is at most 30 seconds old; a call
\* that receives a reply sets the timestamp to the time of the call, and a
\* call that times out, fails in the transport or fails to reconnect leaves
\* the timestamp as it was.
C11_FreshnessOfConnection ==
    /\ (ret.op = "is_connected" /\ ret.result = Bool(TRUE)) =>
          (connected /\ now - last_successful_communication <= FreshnessWindow)
    /\ \A k \in Calls :
          /\ k.reply # "none" => k.stamp_after = k.time
          /\ k.outcome \in {"timeout", "zmq_error", "connection_failed", "blocked"} =>
                k.stamp_after = k.stamp_before

\* C12: a failure of the metrics collector to record the duration, after
\* the reply was received and decoded, does not change the call: it returns
\* the decoded reply and leaves the client marked connected.
C12_MetricsFailureChangesNothing ==
    \A k \in Calls :
        k.metrics = "raises" => /\ k.returned
                                /\ k.result = k.decoded
                                /\ k.connected_after

\* what get_observation returned is absent or malformed telemetry: a falsy
\* value, a mapping with status "error", or a value that is no mapping
MalformedTelemetry(raw) ==
    \/ raw.kind \in {"null", "list"}
    \/ raw.kind = "map" /\ raw.status = "error"
    \/ raw = Mapping("absent", NoMessage, FALSE, "empty")

\* C13: for every absent or malformed telemetry input (an empty value, a
\* mapping with status "error", a decoded value that is no mapping),
\* normalization returns the all-default snapshot and does not raise: a
\* reset that was given such a value returns, and the snapshot is the default.
C13_MalformedTelemetryGivesDefault ==
    (ret.op = "reset" /\ MalformedTelemetry(ret.result)) =>
        (ret.returned /\ ~ret.raised /\ last_observation = DefaultObs)

\* the keys of a mapping whose value has the wrong type
FaultyKeys(tel) == {k \in Keys : tel[k] \in WrongValues(k)}

\* C14: a conversion failure is isolated to its own field: for a mapping in
\* which exactly one field has a value of the wrong type, the snapshot is
\* the one the mapping without that field gives (the default for the
\* field, every other field as normalized without it).
C14_ConversionFailureIsolated ==
    (ret.op = "normalize" /\ Cardinality(FaultyKeys(normalize_input)) = 1) =>
        last_observation =
            ParseTelemetry(WithoutKeys(normalize_input, FaultyKeys(normalize_input)))

\* every value of the mapping that is present has the type expected, at
\* every level
NumberOrAbsent(val) == val.t \in {"num", "absent"}
LocationWellTyped(loc) ==
    loc.t \in {"absent", "null"}
    \/ (loc.t = "dict" /\ NumberOrAbsent(loc.x) /\ NumberOrAbsent(loc.y)
        /\ NumberOrAbsent(loc.plane))
WellTyped(tel) ==
    /\ \A k \in Keys \ (ListKeys \cup {"player_location"}) : NumberOrAbsent(tel[k])
    /\ LocationWellTyped(tel.player_location)
    /\ \A k \in ListKeys : tel[k].t \in {"list", "absent"}
    /\ \A i \in 1..Len(tel.nearby_npcs.items) :
          LET e == tel.nearby_npcs.items[i]
          IN e.t = "dict" /\ NumberOrAbsent(e.id) /\ NumberOrAbsent(e.animation)
             /\ LocationWellTyped(e.location)
    /\ \A i \in 1..Len(tel.inventory.items) :
          LET e == tel.inventory.items[i] IN e.t = "dict" /\ NumberOrAbsent(e.id)
    /\ \A i \in 1..Len(tel.nearby_ground_items.items) :
          LET e == tel.nearby_ground_items.items[i]
          IN e.t = "dict" /\ NumberOrAbsent(e.id) /\ NumberOrAbsent(e.quantity)
             /\ LocationWellTyped(e.location)

\* the source value of a key, or the documented default when it is absent
ValueOr(val, default) == IF val.t = "num" THEN val.v ELSE default
CoordinatesOr(loc, default) ==
    IF loc.t = "dict" THEN <<ValueOr(loc.x, default), ValueOr(loc.y, default)>>
    ELSE <<default, default>>
ExpectedLocation(loc) ==
    IF loc.t = "dict" THEN <<ValueOr(loc.x, 0), ValueOr(loc.y, 0), ValueOr(loc.plane, 0)>>
    ELSE <<0, 0, 0>>
ExpectedNpc(lst, i) ==
    IF i > Len(lst.items) THEN <<-1, -1, -1, -1>>
    ELSE LET e == lst.items[i]
             xy == CoordinatesOr(e.location, -1)
         IN <<ValueOr(e.id, -1), xy[1], xy[2], ValueOr(e.animation, -1)>>
ExpectedItem(lst, i) ==
    IF i > Len(lst.items) THEN -1 ELSE ValueOr(lst.items[i].id, -1)
ExpectedGroundItem(lst, i) ==
    IF i > Len(lst.items) THEN <<-1, -1, -1, -1>>
    ELSE LET e == lst.items[i]
             xy == CoordinatesOr(e.location, -1)
         IN <<ValueOr(e.id, -1), ValueOr(e.quantity, 0), xy[1], xy[2]>>

\* C15: for a mapping with any subset of its keys absent (at every level)
\* and every present value well typed, each field of the snapshot is the
\* source value of its own key, or its documented default when the key is
\* absent: no field depends on the presence of another key.
C15_AbsentKeysGiveDefaults ==
    (ret.op = "normalize" /\ WellTyped(normalize_input)) =>
        LET tel == normalize_input
            obs == last_observation
        IN /\ obs.player_stats =
                  <<ValueOr(tel.player_current_health, 0), ValueOr(tel.player_max_health, 0),
                    ValueOr(tel.player_current_prayer, 0), ValueOr(tel.player_max_prayer, 0),
                    ValueOr(tel.player_run_energy_percentage, 0)>>
           /\ obs.player_animation = ValueOr(tel.player_animation, -1)
           /\ obs.player_location = ExpectedLocation(tel.player_location)
           /\ \A i \in 1..MAX_NEARBY_NPCS :
                 obs.nearby_npcs_info[i] = ExpectedNpc(tel.nearby_npcs, i)
           /\ \A i \in 1..MAX_INVENTORY_ITEMS :
                 obs.inventory_item_ids[i] = ExpectedItem(tel.inventory, i)
           /\ \A i \in 1..MAX_GROUND_ITEMS :
                 obs.nearby_ground_items_info[i] = ExpectedGroundItem(tel.nearby_ground_items, i)

\* a mapping without player_max_health, player_location and inventory,
\* normalized: the three fields at their defaults, the others from the source
C15_Witness ==
    /\ ret.op = "normalize"
    /\ normalize_input =
          WithoutKeys(FullTel, {"player_max_health", "player_location", "inventory"})
    /\ last_observation.player_stats = <<80, 0, 10, 10, 1>>
    /\ last_observation.player_location = <<0, 0, 0>>
    /\ last_observation.inventory_item_ids[1] = -1
    /\ last_observation.nearby_npcs_info[2][1] = 102

\* the slots of the snapshot filled from the list under key k, as a sequence
SlotsOf(obs, k) ==
    CASE k = "nearby_npcs" -> obs.nearby_npcs_info
      [] k = "inventory" -> obs.inventory_item_ids
      [] OTHER -> obs.nearby_ground_items_info

\* what slot i holds for the i-th element of the list under key k
ExpectedSlot(tel, k, i) ==
    CASE k = "nearby_npcs" -> ExpectedNpc(tel[k], i)
      [] k = "inventory" -> ExpectedItem(tel[k], i)
      [] OTHER -> ExpectedGroundItem(tel[k], i)

\* the sentinel of an unused slot
EmptySlot(k) == IF k = "inventory" THEN -1 ELSE <<-1, -1, -1, -1>>

\* no handler of the try block ran: the fields read before and after the
\* lists hold their source values
NoErrorHandled(tel, obs) ==
    /\ obs.player_animation = ValueOr(tel.player_animation, -1)
    /\ obs.player_stats[1] = ValueOr(tel.player_current_health, 0)

\* C16: for a list with more elements than the capacity (3, 5, 5), the
\* snapshot has exactly capacity slots, slot i holds the i-th element of
\* the source for every i up to the capacity, the elements after are
\* dropped, and no error is handled.
C16_OverCapacityKeepsFirst ==
    (ret.op = "normalize" /\ WellTyped(normalize_input)) =>
        \A k \in ListKeys :
            Len(normalize_input[k].items) > Capacity(k) =>
                /\ Len(SlotsOf(last_observation, k)) = Capacity(k)
                /\ \A i \in 1..Capacity(k) :
                      /\ SlotsOf(last_observation, k)[i] = ExpectedSlot(normalize_input, k, i)
                      /\ SlotsOf(last_observation, k)[i] # EmptySlot(k)
                /\ NoErrorHandled(normalize_input, last_observation)

\* four NPCs normalized: the third slot holds the third, the fourth is gone
C16_Witness ==
    /\ ret.op = "normalize"
    /\ Len(normalize_input.nearby_npcs.items) = MAX_NEARBY_NPCS + 1
    /\ last_observation.nearby_npcs_info[1][1] = 101
    /\ last_observation.nearby_npcs_info[MAX_NEARBY_NPCS][1] = 100 + MAX_NEARBY_NPCS

\* C17: for a list with n elements, n below the capacity, slots 1..n hold
\* the source elements in source order and every slot after n holds -1 in
\* every field.
C17_UnderCapacityPadsWithSentinel ==
    (ret.op = "normalize" /\ WellTyped(normalize_input)) =>
        \A k \in ListKeys :
            LET n == Len(normalize_input[k].items)
            IN n < Capacity(k) =>
                  /\ \A i \in 1..n :
                        SlotsOf(last_observation, k)[i] = ExpectedSlot(normalize_input, k, i)
                  /\ \A i \in (n + 1)..Capacity(k) :
                        SlotsOf(last_observation, k)[i] = EmptySlot(k)

\* an inventory of two items normalized into five slots
C17_Witness ==
    /\ ret.op = "normalize"
    /\ normalize_input.inventory = ListOfLength("inventory", 2)
    /\ last_observation.inventory_item_ids = <<501, 502, -1, -1, -1>>

\* C18: normalization is deterministic in its input: every normalization
\* of the same raw telemetry gives the same snapshot, whatever was
\* normalized before it and in between.
C18_NormalizationDeterministic ==
    \A i, j \in DOMAIN snapshots :
        (snapshots[i].own /\ snapshots[j].own) => snapshots[i].obs = snapshots[j].obs

\* the same mapping normalized twice, with another mapping in between
C18_Witness ==
    /\ Len(snapshots) = 3
    /\ snapshots[1].own /\ ~snapshots[2].own /\ snapshots[3].own
    /\ snapshots[2].obs # snapshots[3].obs
    /\ last_observation = snapshots[1].obs

\* C19, as the specification states it: a step with the NoOp action code
\* (3) returns exactly the neutral reward 0.0 regardless of every other
\* input, the health of the fetched snapshot included.
C19_NoopAlwaysNeutral ==
    (StepReturned /\ ret.action = 3) => ret.reward = NoopReward

\* C19, amended: a step with the NoOp action code returns exactly the
\* neutral reward 0.0 whatever the previous snapshot and the transport
\* results, unless the fetched snapshot has currentHealth <= 0: then it
\* returns the death reward, which has priority over NoOp.
C19_NoopNeutralUnlessDead ==
    (StepReturned /\ ret.action = 3) =>
        ret.reward = IF FetchedHealth <= 0 THEN DeathReward ELSE NoopReward

\* a NoOp step with the player alive in the fetched telemetry
C19_Witness ==
    /\ StepReturned
    /\ ret.action = 3
    /\ FetchedHealth > 0
    /\ ret.reward = NoopReward

\* C20: a step with the NoOp action code makes no execute_action call, in
\* any state of the environment: the only call of the step is the fetch.
C20_NoopSubmitsNothing ==
    (ret.op = "step" /\ ret.action = 3) =>
        \A k \in Calls : k.cmd # "execute_action"

\* a NoOp step that has returned after its one call, get_observation, on a
\* client that had to reconnect for it
C20_Witness ==
    /\ StepReturned
    /\ ret.action = 3
    /\ Len(calls) = 1
    /\ calls[1].cmd = "get_observation"
    /\ calls[1].reconnects = 1
    /\ ~last_observation.is_none

\* the step that is being taken, and the action codes step enumerates
StepTaken == ret'.op = "step"
KnownActions == 0..3

UnknownActionPenalty == -100

\* C22: a step with an action code outside the enumerated action set, when
\* the fetched snapshot has currentHealth > 0, returns exactly the fixed
\* unknown-action penalty -1.0 as its reward.
C22_UnknownActionPenalty ==
    (StepReturned /\ ret.action \notin KnownActions /\ FetchedHealth > 0) =>
        ret.reward = UnknownActionPenalty

\* C23: when a Consume step is taken with the previous health at or below
\* 60% of max and a food item in the inventory, the action is submitted
\* with status 'submitted', and the health in the freshly fetched snapshot
\* is greater than the health in the snapshot held before the step (and
\* above 0), the reward is baseCost + submission bonus + 0.5 x (new health
\* - old health).
C23_HealBonus ==
    [][(/\ StepTaken
        /\ ret'.returned
        /\ ret'.action = 1
        /\ ~last_observation.is_none
        /\ ShouldEat(last_observation.player_stats[1], last_observation.player_stats[2])
        /\ FindFood(last_observation, 1) # -1
        /\ ret'.action_status.status = "submitted"
        /\ last_observation'.player_stats[1] > last_observation.player_stats[1]
        /\ last_observation'.player_stats[1] > 0)
       => ret'.reward = BaseActionCost + SubmittedBonus
                          + HealBonusPerPoint * (last_observation'.player_stats[1]
                                                   - last_observation.player_stats[1])]_vars

\* what an Attack or Consume step is decided on: the snapshot held before it
HasPrevious == ~last_observation.is_none
PrevLocation == last_observation.player_location
PrevNpcs == last_observation.nearby_npcs_info

\* the player location as the specification calls it uninitialized: x, y
\* and plane all at the default 0
LocationAtDefault == PrevLocation = <<0, 0, 0>>

\* the player location as _handle_attack_npc tests it: x and y both 0
LocationAtOrigin == PrevLocation[1] = 0 /\ PrevLocation[2] = 0

\* some slot of the previous snapshot holds an entity of the target type
TargetTypeNearby == \E i \in 1..MAX_NEARBY_NPCS : PrevNpcs[i][1] = GOBLIN_NPC_ID

NoSubmit == \A i \in DOMAIN calls' : calls'[i].cmd # "execute_action"

\* what C24 says of a step: nothing submitted, the reason in the info, and
\* the reward when the player is alive in the fetched snapshot
NoTargetOutcome ==
    /\ NoSubmit
    /\ ret'.info.error = "No suitable goblin found"
    /\ (ret'.returned /\ last_observation'.player_stats[1] > 0)
          => ret'.reward = BaseActionCost - NoGoblinPenalty

C25_ResetClearsCursorAndTarget ==
    (ret.op = "reset" /\ ret.returned) =>
        (waypoint_index = 0 /\ current_target_npc_id = -1)

\* the first call of the step being taken submits the given action
Submits(action_type, id) ==
    /\ Len(calls') >= 1
    /\ calls'[1].cmd = "execute_action"
    /\ calls'[1].params = Payload(action_type, id)

\* C26: every MoveTo step submits a walk_to action, whatever the previous
\* snapshot holds; the k-th MoveTo step taken on a controller submits
\* waypoint number (k-1) mod 3 of the fixed ordered list: the cursor is 0
\* at first, each MoveTo step submits the waypoint at cursor mod 3 (the
\* list counted from 1 here) and increases the cursor by exactly one, and
\* no other step changes the cursor.
C26_WaypointCycle ==
    /\ waypoint_index = 0
    /\ [][IF StepTaken /\ ret'.action = 2
          THEN /\ Submits("walk_to", (waypoint_index % 3) + 1)
               /\ waypoint_index' = waypoint_index + 1
          ELSE waypoint_index' = waypoint_index]_vars

\* the fourth MoveTo step of a controller, which submits the first
\* waypoint again
C26_Witness ==
    /\ StepReturned
    /\ ret.action = 2
    /\ waypoint_index = 4
    /\ calls[1].cmd = "execute_action"
    /\ calls[1].params = Payload("walk_to", 1)
    /\ calls[1].sent

\* the slots of the previous snapshot that hold an entity of the target
\* type with both coordinates set, and their squared distance to the player
Matching ==
    {i \in 1..MAX_NEARBY_NPCS :
        PrevNpcs[i][1] = GOBLIN_NPC_ID /\ PrevNpcs[i][2] # -1 /\ PrevNpcs[i][3] # -1}
DistSq(i) ==
    (PrevLocation[1] - PrevNpcs[i][2]) * (PrevLocation[1] - PrevNpcs[i][2])
    + (PrevLocation[2] - PrevNpcs[i][3]) * (PrevLocation[2] - PrevNpcs[i][3])

\* the matching slot nearest to the player, the first one on ties
Nearest ==
    CHOOSE i \in Matching :
        \A j \in Matching : DistSq(i) < DistSq(j) \/ (DistSq(i) = DistSq(j) /\ i <= j)

AttackScans == StepTaken /\ ret'.action = 0 /\ HasPrevious /\ ~LocationAtOrigin

\* C28: after an Attack step that finds a matching entity, the current
\* target equals the chosen entity id; after an Attack step that finds no
\* match, the current target is none and the info carries a failure reason.
C28_TargetFollowsScan ==
    [][AttackScans =>
          IF Matching # {}
          THEN /\ current_target_npc_id' = PrevNpcs[Nearest][1]
               /\ ret'.info.target_id = current_target_npc_id'
          ELSE /\ current_target_npc_id' = -1
               /\ ret'.info.attack_attempted = "false"
               /\ ret'.info.error = "No suitable goblin found"]_vars

\* an Attack step that found no goblin has returned; the target is none
\* and the cursor shows that MoveTo steps were taken before it
C28_Witness ==
    /\ StepReturned
    /\ ret.action = 0
    /\ ret.info.error = "No suitable goblin found"
    /\ current_target_npc_id = -1
    /\ waypoint_index > 0

\* C29: if the previous snapshot's player location is uninitialized (x, y
\* and plane all at the default 0), an Attack step submits no action and
\* reports a location-unavailable reason in the info, even when a
\* target-type entity with valid coordinates is present.
C29_AttackRefusedWithoutLocation ==
    [][(StepTaken /\ ret'.action = 0 /\ HasPrevious /\ LocationAtDefault) =>
            /\ NoSubmit
            /\ ret'.info.attack_attempted = "false"
            /\ ret'.info.error = "Player location missing or uninitialized"]_vars

\* an Attack step that was refused for the location has returned after
\* its one call, the fetch, which brought a snapshot with a goblin in it
C29_Witness ==
    /\ StepReturned
    /\ ret.action = 0
    /\ ret.info.error = "Player location missing or uninitialized"
    /\ Len(calls) = 1
    /\ calls[1].cmd = "get_observation"
    /\ ret.result.tel = "location_absent"
    /\ last_observation.player_location = <<0, 0, 0>>
    /\ last_observation.nearby_npcs_info[1][1] = GOBLIN_NPC_ID

\* C30: if the previous snapshot's player location is uninitialized (x, y
\* and plane all at the default 0), a Consume step submits no action and
\* reports a location-unavailable reason, even when health is at or below
\* the threshold and food is in the inventory.
C30_ConsumeRefusedWithoutLocation ==
    [][(StepTaken /\ ret'.action = 1 /\ HasPrevious /\ LocationAtDefault
        /\ ShouldEat(last_observation.player_stats[1], last_observation.player_stats[2])
        /\ FindFood(last_observation, 1) # -1) =>
            /\ NoSubmit
            /\ ret'.info.eat_attempted = "false"
            /\ ret'.info.error = "Player location missing or uninitialized"]_vars

\* what a Consume step is decided on
PrevHealth == last_observation.player_stats[1]
PrevMaxHealth == last_observation.player_stats[2]
PrevInventory == last_observation.inventory_item_ids

\* the inventory slots of the previous snapshot that hold food, and the
\* first of them in slot order
FoodSlots == {i \in 1..MAX_INVENTORY_ITEMS : PrevInventory[i] \in FOOD_ITEM_IDS}
FirstFoodSlot == CHOOSE i \in FoodSlots : \A j \in FoodSlots : i <= j

\* C31: a Consume step submits a consume action if and only if, in the
\* previous snapshot, maxHealth > 0, currentHealth / maxHealth <= 0.6, and
\* some inventory slot holds an identifier from the food set; the submitted
\* item id is that of the first such slot in slot order. In every other
\* case no action is submitted and the specific reason (invalid max
\* health, health sufficient, no food found) is recorded.
C31_ConsumeIffLowAndFood ==
    [][(StepTaken /\ ret'.action = 1 /\ HasPrevious) =>
          CASE PrevMaxHealth <= 0 ->
                  NoSubmit /\ ret'.info.error = "Invalid max_health"
            [] PrevMaxHealth > 0 /\ PrevHealth * 10 > PrevMaxHealth * 6 ->
                  NoSubmit /\ ret'.info.status = "Health sufficient"
            [] PrevMaxHealth > 0 /\ PrevHealth * 10 <= PrevMaxHealth * 6 /\ FoodSlots = {} ->
                  NoSubmit /\ ret'.info.error = "No food found"
            [] OTHER ->
                  /\ Submits("interact_inventory", PrevInventory[FirstFoodSlot])
                  /\ ret'.info.eat_attempted = "true"]_vars

\* the decision of the step in ret produced an action
ActionProduced ==
    \/ ret.info.attack_attempted = "true"
    \/ ret.info.eat_attempted = "true"
    \/ ret.info.action_taken = "move_to_waypoint"

\* the calls of one step in their order: execute_action once when an action
\* was produced and not otherwise, then get_observation once
CallsInOrder ==
    /\ Len(calls) = IF ActionProduced THEN 2 ELSE 1
    /\ calls[Len(calls)].cmd = "get_observation"
    /\ ActionProduced => calls[1].cmd = "execute_action"

\* C32: within one step the transport calls occur in a fixed order: at
\* most one execute_action call (exactly one when an action was produced,
\* none otherwise), then exactly one get_observation call; the reward is
\* computed only after that fetch, from the snapshot it brought.
C32_CallOrder ==
    ret.op = "step" =>
        /\ CallsInOrder
        /\ ret.returned =>
              ret.reward = calculate_reward(BaseActionCost, ret.info, last_observation,
                                            last_observation, ret.action_status, ret.action)

\* the action of the step in ret was submitted with status 'submitted',
\* and the player is alive in the snapshot fetched after it
SubmittedAlive ==
    /\ StepReturned
    /\ ret.action_status.status = "submitted"
    /\ FetchedHealth > 0

\* C33: for a step whose action was submitted with status 'submitted' and
\* whose fetched health is above 0, the reward is baseCost + submission
\* bonus + action bonus: -0.1 + 0.1 + 0.5 for Attack and -0.1 + 0.1 + 0.05
\* for MoveTo.
C33_SubmittedRewards ==
    /\ (SubmittedAlive /\ ret.action = 0) =>
            ret.reward = BaseActionCost + SubmittedBonus + AttackBonus
    /\ (SubmittedAlive /\ ret.action = 2) =>
            ret.reward = BaseActionCost + SubmittedBonus + MoveBonus

\* a submitted MoveTo step with the player alive, rewarded with the flat
\* bonus on top of the submission bonus
C33_Witness ==
    /\ SubmittedAlive
    /\ ret.action = 2
    /\ ret.reward = BaseActionCost + SubmittedBonus + MoveBonus
    /\ Len(calls) = 2
    /\ calls[1].outcome = "reply"

\* a step other than NoOp has returned with the player alive in the
\* snapshot fetched, and its action outcome has the given status
AliveWithStatus(status) ==
    /\ StepReturned
    /\ ret.action # 3
    /\ FetchedHealth > 0
    /\ ret.action_status.status = status

\* C34: for a step that is not NoOp and whose fetched health is above 0:
\* if the action outcome has status error the reward is baseCost - 0.5; if
\* no action was taken the reward is baseCost minus the penalty keyed by
\* the decision's recorded reason (0.5 for no target found on Attack, 0.3
\* for no food found and 0.3 for health sufficient on Consume); these
\* penalties are never combined with the submission bonus.
C34_FailurePenalties ==
    /\ AliveWithStatus("error") => ret.reward = BaseActionCost - ActionErrorPenalty
    /\ (AliveWithStatus("no_action_taken") /\ ret.action = 0
        /\ ret.info.error = "No suitable goblin found")
            => ret.reward = BaseActionCost - NoGoblinPenalty
    /\ (AliveWithStatus("no_action_taken") /\ ret.action = 1
        /\ ret.info.error = "No food found")
            => ret.reward = BaseActionCost - NoFoodPenalty
    /\ (AliveWithStatus("no_action_taken") /\ ret.action = 1
        /\ ret.info.status = "Health sufficient")
            => ret.reward = BaseActionCost - HealthSufficientPenalty

\* a Consume step whose submit call was answered with an error by the
\* peer, with the player alive in the snapshot fetched after it
C34_Witness ==
    /\ AliveWithStatus("error")
    /\ ret.action = 1
    /\ ret.info.eat_attempted = "true"
    /\ calls[1].outcome = "reply"
    /\ ret.reward = BaseActionCost - ActionErrorPenalty

\* C35: after every reset and every step, the stored last snapshot is the
\* snapshot that call returned (the one made from what the call's fetch
\* brought), and the derived combat-state flag is true exactly when that
\* snapshot's player animation id is in the fixed combat-animation set.
C35_StoredSnapshotAndCombatState ==
    (ret.op \in {"reset", "step"} /\ ret.returned) =>
        /\ last_observation = get_obs(ret.result).obs
        /\ calls[Len(calls)].result = ret.result
        /\ player_is_in_combat_animation
              <=> (last_observation.player_animation \in PLAYER_COMBAT_ANIMATION_IDS)

\* a step that fetched a snapshot with a combat animation, after a reset
\* or step that had stored one without
C35_Witness ==
    /\ StepReturned
    /\ ret.result.tel = "combat"
    /\ last_observation.player_animation = 422
    /\ player_is_in_combat_animation

\* the episode has ended: the last call the caller made was a step that
\* returned terminated = true
EpisodeOver == ret.op = "idle" /\ ret.terminated

\* C36: a step is processed (decision made, action submitted) only in
\* Ready, that is after a reset and before any step has returned
\* terminated = true: a step called before the first reset, when no
\* snapshot is stored yet, or after termination submits no action.
C36_StepsOnlyWhenReady ==
    [][(StepTaken /\ (~HasPrevious \/ EpisodeOver)) => NoSubmit]_vars

\* C37: MetricsCollector.record_connection_failure always completes: once
\* it has been called (the counter has been incremented) it has returned
\* with the collector's lock released, and no caller is left waiting for
\* the lock.
C37_ConnectionFailureRecorded ==
    connection_failures > 0 => (~lock_held /\ ~blocked)

\* the reset or step that has just ended made its fetch, and the fetch
\* returned an Error result
FetchFailed ==
    /\ ret.op \in {"reset", "step"}
    /\ Len(calls) > 0
    /\ calls[Len(calls)].cmd = "get_observation"
    /\ calls[Len(calls)].returned
    /\ calls[Len(calls)].result.kind = "map"
    /\ calls[Len(calls)].result.status = "error"

\* C38: after a step or reset whose snapshot fetch returned an Error
\* result the stored snapshot is the all-default one, and an Attack step
\* and a Consume step decided on the all-default snapshot each submit no
\* action (location uninitialized, max health 0): so it is for every step
\* until a later fetch succeeds.
C38_DefaultSnapshotBlocksActions ==
    [][/\ FetchFailed' => last_observation' = DefaultObs
       /\ (StepTaken /\ last_observation = DefaultObs) =>
            /\ ret'.action = 0 =>
                  /\ NoSubmit
                  /\ ret'.info.error = "Player location missing or uninitialized"
            /\ ret'.action = 1 =>
                  /\ NoSubmit
                  /\ ret'.info.error = "Invalid max_health"]_vars

\* a Consume step refused for the max health of the default snapshot,
\* whose own fetch returned an Error result again (a timeout)
C38_Witness ==
    /\ FetchFailed
    /\ ret.op = "step"
    /\ ret.action = 1
    /\ ret.info.error = "Invalid max_health"
    /\ Len(calls) = 1
    /\ calls[1].outcome = "timeout"
    /\ last_observation = DefaultObs

\* a get_observation or execute_action call is being made right after
\* close()
CallAfterClose == ret.op = "close" /\ ret'.op \in {"get_observation", "execute_action"}

\* C39: close() marks the client disconnected and releases its handle, but
\* it is not a terminal state: a get_observation or execute_action call
\* issued after close() takes the reconnect path and, when the new
\* connection can be made, creates a fresh handle and sends its request on
\* it.
C39_CloseIsNotTerminal ==
    [][/\ ret'.op = "close" => (~connected' /\ socket' \notin live')
       /\ CallAfterClose =>
            /\ Len(calls') = 1
            /\ ~calls'[1].was_connected
            /\ calls'[1].reconnects = 1
            /\ calls'[1].reconnect_ok =>
                  /\ calls'[1].send_attempted
                  /\ calls'[1].sent \/ calls'[1].outcome = "zmq_error"
                  /\ calls'[1].send_socket = created + 1
                  /\ calls'[1].send_socket # socket
                  /\ ~calls'[1].send_on_closed
                  /\ ~calls'[1].send_on_awaiting]_vars

\* a call made after close(), which followed a call that had succeeded:
\* it reconnected, sent on the new socket and got its reply
C39_Witness ==
    /\ ret.op \in {"get_observation", "execute_action"}
    /\ calls[1].prev = "reply"
    /\ ~calls[1].was_connected
    /\ calls[1].reconnect_ok
    /\ calls[1].send_socket = socket
    /\ calls[1].send_socket # calls[1].socket_before
    /\ calls[1].outcome = "reply"
    /\ connected

\* C40: HealthCheckCallback stops training after too many failures: its
\* failure counter counts consecutive failed health checks (a passing
\* check resets it to 0), and once it reaches max_health_failures (5) the
\* callback's _on_step returns False, so that training stops.
C40_TooManyFailuresStopTraining ==
    [][/\ health_check'.health = "critical" => health_failures' = health_failures + 1
       /\ health_check'.health = "good" => health_failures' = 0
       /\ (health_check'.performed /\ health_failures' >= max_health_failures)
            => health_check'.on_step = FALSE]_vars

====
